---- MODULE Spec2Model ----
(***************************************************************************)
(* The auto-lecture state machine (AutoTutorContext), the voice tutor      *)
(* lifecycle it drives (TutorContext) and the part of the realtime voice   *)
(* session (startGeminiVoice) it uses.                                      *)
(*                                                                         *)
(* React state and refs are separate variables: a handler's setX(...) is   *)
(* visible in the state variable at once, the ref that mirrors it          *)
(* (stateRef, currentSlideIndexRef, isAutoModeRef) only after the next     *)
(* Commit (render + effects).  Handlers read the refs, as the code does.   *)
(* A timer started by a handler is "fresh" until that Commit: delays are   *)
(* 500 ms and more, a render a few ms, so a timer never expires before the *)
(* render that was pending when it was started.  Apart from that, timers   *)
(* expire in any order.                                                    *)
(***************************************************************************)
EXTENDS Integers, Sequences, FiniteSets, TLC

\* ---------------------------------------------------------------- bounds
MaxSlides == 2      \* decks of 0..MaxSlides slides
MaxLectures == 1    \* lectures started
MaxTurns  == 1      \* remote model turns outstanding
MaxQueue  == 1      \* scheduled playback items
MaxAnon   == 1      \* pending anonymous timers of one kind
MaxAsync  == 1      \* classification bodies in flight
MaxSessions == 2    \* startGeminiVoice calls
MaxClock  == 3      \* audioContext.currentTime, in ticks
MaxFrames == 3      \* audio frames scheduled between two clears
MaxDuration == 2    \* duration of an audio frame, in ticks
MaxVadTicks == 8    \* Date.now() advances, in units of 100 ms
MaxClears == 2      \* calls of clearAudio followed
MaxTime == 6        \* the clock of the timers, in units of 500 ms
MaxTimers == 2      \* timers pending at once
DeckSize == 3       \* slides of the deck of the timed lecture
MaxMessages == 3    \* messages a quiz session receives
MaxEarly == 4       \* frames captured around one connect
VadWindow == 5      \* the 500 ms of the local VAD, in units of 100 ms
MaxHandlers == 2    \* callbacks a bridge is given
MaxPayloads == 2    \* payloads sent over a bridge
MaxCalls == 2       \* function calls received by the live session
MaxWait == 2        \* ticks a tool call is followed while it awaits its owner
MaxSamples == 2     \* samples of an encoded array
FullScale == 32768  \* the factor between a sample and its 16-bit value
Int16Modulus == 65536  \* 2^16, the width of an Int16Array element
Pad == 64           \* the padding character of base64, beside digits 0..63

TutorStates ==
  {"idle", "auto_explaining", "paused_for_question", "answering",
   "research_mode", "visual_explaining", "waiting_to_resume", "finished"}

AnonKinds == {"grace", "resume", "visualClose", "firstNarration"}
Stages    == {"detect", "research", "visual"}
TimerIds  == 1..4

VARIABLES
  tutorState, stateRef,                \* useState / useRef mirror
  currentSlideIndex, currentSlideIndexRef,
  isAutoMode, isAutoModeRef,
  slidesLen,                           \* slidesRef.current.length
  pendingSlideExplainRef,
  advanceTimerRef, researchTimerRef,   \* 0 = null, else a timer id
  advTimers,                           \* pending advance timers
  resTimers,                           \* pending classification timers
  anonFresh, anonArmed,                \* pending timers whose id is not kept
  classify,                            \* suspended classification bodies
  researchPanelData,                   \* "none" | "loading" | "ready"
  isVisualGeneratingRef,
  showVisualOverlay, visualOverlay,
  isVoiceConnected, renderedVoiceConnected, isConnecting,
  connectInFlight,                     \* startGeminiVoice awaiting
  realtimeRef,                         \* "none" | "open"
  muted, isMicMuted,                   \* session flag / TutorContext state
  activeSources,                       \* scheduled playback items
  subtitlesText, subsChanged,
  turns,                               \* model turns still to complete
  lectures,                            \* lectures started so far
  sent,                                \* the last narration request sent:
                                       \* its slide, and a bit each request flips
  \* --- the voice session layer on its own (startGeminiVoice, TutorContext)
  handles,                             \* one record per startGeminiVoice call
  tutorCtx,                            \* isRecording, isConnecting, realtimeRef
  effect,                              \* what the last handle call did
  \* --- the playback scheduler of one session on its own
  currentTime,                         \* audioContext.currentTime
  player,                              \* nextStartTime, isSpeaking, activeSources
  scheduled,                           \* frames scheduled since the last clear
  atInterrupted,                       \* what the owner saw at onInterrupted
  speakingCalls,                       \* onSpeakingStart calls less onSpeakingStop calls
  lastPlay,                            \* the last playback operation
  \* --- microphone capture of one session on its own (onaudioprocess)
  dateNow,                             \* Date.now(), in units of 100 ms
  capture,                             \* muted, stopped, stream, lastActivityTime
  frameOut,                            \* what the last captured frame caused
  \* --- the bridges (tutorBridge, chatBridge, panelBridge)
  bridgeCallback,                      \* the callback slot of each bridge
  bridgeLog,                           \* registrations and the last send
  \* --- tool calls of the voice chat
  toolCalls,                           \* one record per function call received
  \* --- the audio codec
  codec,                               \* samples, their encoding, its decoding
  decoding,                            \* audio parts between await and resume
  tm,                                  \* a lecture's pauses against the clock
  quiz,                                \* the quiz session's messages and effects
  early                                \* frames captured around the connect

machine == <<tutorState, stateRef, currentSlideIndex, currentSlideIndexRef,
             isAutoMode, isAutoModeRef, slidesLen, pendingSlideExplainRef>>
timerv  == <<advanceTimerRef, researchTimerRef, advTimers, resTimers,
             anonFresh, anonArmed>>
visual  == <<isVisualGeneratingRef, showVisualOverlay, visualOverlay>>
sessv   == <<isVoiceConnected, renderedVoiceConnected, isConnecting,
             connectInFlight, realtimeRef, muted, isMicMuted, activeSources>>
textv   == <<subtitlesText, subsChanged>>

corev == <<machine, timerv, visual, sessv, textv, classify,
           researchPanelData, turns, lectures, sent>>
voicev == <<handles, tutorCtx, effect>>
playv  == <<currentTime, player, scheduled, atInterrupted, speakingCalls,
           lastPlay>>
capturev == <<dateNow, capture, frameOut>>
bridgev == <<bridgeCallback, bridgeLog>>
latev == <<decoding, tm, quiz, early>>
auxv == <<capturev, bridgev, toolCalls, codec, latev>>

vars == <<corev, voicev, playv, auxv>>

SessionIds == 1..MaxSessions

\* the closure of a startGeminiVoice call before it has run
NoSession ==
  [stage |-> "none", audioContext |-> "none", inputAudioContext |-> "none",
   stream |-> "none", socket |-> "none", stopped |-> FALSE,
   isSpeaking |-> FALSE, activeSources |-> 0]

NoEffect == [call |-> "none", session |-> 0, done |-> FALSE,
             speakingStop |-> FALSE]

\* no frame captured yet
NoFrame == [taken |-> FALSE, loud |-> FALSE, muted |-> FALSE,
            stopped |-> FALSE, unmuted |-> FALSE, gap |-> -1,
            activity |-> FALSE, sent |-> FALSE]

Bridges == {"tutor", "chat", "panel"}
NoBridgeLog ==
  [history |-> [b \in Bridges |-> << >>],
   sent |-> [bridge |-> "none", payload |-> 0, threw |-> FALSE,
             calls |-> << >>]]
ToolCallIds == 1..MaxCalls
NoToolCall ==
  [name |-> "none", state |-> "none", waited |-> 0, responses |-> << >>]

\* no audio part is awaiting its decode, clearAudio was never called
NoDecoding ==
  [parts |-> << >>, epoch |-> 0, clearEpoch |-> 0, epochOf |-> << >>]

\* no lecture runs, no timer is pending
NoLecture ==
  [state |-> "idle", stateRef |-> "idle", index |-> 0, indexRef |-> 0,
   subs |-> "empty", changed |-> FALSE, now |-> 0, timers |-> {},
   advanceTimerRef |-> 0, pausedAt |-> 0, entryIndex |-> 0,
   resumed |-> 0]

\* the quiz session is open, no message has arrived
NoQuiz ==
  [next |-> 1, awaiting |-> {}, status |-> "listening", isPlaying |-> FALSE,
   log |-> << >>]

\* connect was not called, nothing is captured
NoConnect ==
  [stage |-> "none", muted |-> FALSE, captured |-> 0, queued |-> << >>,
   sent |-> << >>]

NoCodec ==
  [phase |-> "none", input |-> << >>, pcm |-> << >>, data |-> << >>,
   output |-> << >>]

Min(a, b) == IF a < b THEN a ELSE b

Init ==
  /\ tutorState = "idle" /\ stateRef = "idle"
  /\ currentSlideIndex = 0 /\ currentSlideIndexRef = 0
  /\ isAutoMode = FALSE /\ isAutoModeRef = FALSE
  /\ slidesLen = 0
  /\ pendingSlideExplainRef = FALSE
  /\ advanceTimerRef = 0 /\ researchTimerRef = 0
  /\ advTimers = {} /\ resTimers = {}
  /\ anonFresh = [k \in AnonKinds |-> 0]
  /\ anonArmed = [k \in AnonKinds |-> 0]
  /\ classify = [s \in Stages |-> 0]
  /\ researchPanelData = "none"
  /\ isVisualGeneratingRef = FALSE
  /\ showVisualOverlay = FALSE /\ visualOverlay = "none"
  /\ isVoiceConnected = FALSE /\ renderedVoiceConnected = FALSE
  /\ isConnecting = FALSE /\ connectInFlight = FALSE
  /\ realtimeRef = "none"
  /\ muted = FALSE /\ isMicMuted = FALSE
  /\ activeSources = 0
  /\ subtitlesText = "empty" /\ subsChanged = FALSE
  /\ turns = 0
  /\ lectures = 0
  /\ sent = [slide |-> -1, tick |-> FALSE]
  /\ handles = [s \in SessionIds |-> NoSession]
  /\ tutorCtx = [isRecording |-> FALSE, isConnecting |-> FALSE,
                 realtimeRef |-> 0,
                 rendered |-> [isRecording |-> FALSE, isConnecting |-> FALSE]]
  /\ effect = NoEffect
  /\ currentTime = 0
  /\ player = [nextStartTime |-> 0, isSpeaking |-> FALSE, activeSources |-> {},
               stopping |-> 0, dropped |-> FALSE]
  /\ speakingCalls = 0
  /\ lastPlay = "none"
  /\ scheduled = << >>
  /\ atInterrupted = [taken |-> FALSE, cleared |-> 0, activeSources |-> 0,
                      nextStartTime |-> 0, isSpeaking |-> FALSE]
  /\ dateNow = VadWindow + 1
  /\ capture = [muted |-> FALSE, stopped |-> FALSE, stream |-> "live",
                lastActivityTime |-> 0, emittedAt |-> 0, unmuted |-> FALSE]
  /\ frameOut = NoFrame
  /\ bridgeCallback = [b \in Bridges |-> 0]
  /\ bridgeLog = NoBridgeLog
  /\ toolCalls = [c \in ToolCallIds |-> NoToolCall]
  /\ codec = NoCodec
  /\ decoding = NoDecoding
  /\ tm = NoLecture
  /\ quiz = NoQuiz
  /\ early = NoConnect

\* ------------------------------------------------------------- helpers

clearTimeoutNoop(ts, id) == ts

\* clearTimeout(id): the timer with that id, if still pending, never fires
clearTimeout(ts, id) == {t \in ts : t.id # id}

\* setTimeout returns an id no pending timer has (ts: the timers pending
\* when it is called)
NewId(ts) == CHOOSE i \in TimerIds : \A t \in ts : t.id # i

NextIndexSkips(i) == i + 2

\* nextIndex = currentSlideIndexRef.current + 1
NextIndex(i) == i + 1

ClearAudioKeeps(n) == n

\* clearAudio(): activeSources.clear()
ClearAudio(n) == 0

StopAudioPlaybackNoop(n) == n

\* stopAudioPlayback(): realtimeRef.current?.clearAudio()
StopAudioPlayback(n) == IF realtimeRef = "open" THEN ClearAudio(n) ELSE n

\* subtitlesText after onText: prev + text.  "keyword" stands for a text
\* that contains a resume keyword and is longer than 5 characters.
Concat(prev, chunk) ==
  IF prev = "keyword" \/ chunk = "keyword" THEN "keyword" ELSE "plain"

HasResumeKeywordNever(text) == FALSE

\* the resume effect's test on the rendered subtitlesText
HasResumeKeyword(text) == text = "keyword"

ResumeAppliesAlways == TRUE

\* the delayed resume action's own test of the state
ResumeApplies == stateRef = "waiting_to_resume"

AnonCount(k) == anonFresh[k] + anonArmed[k]

AsyncCount == classify["detect"] + classify["research"] + classify["visual"]

\* the state explainCurrentSlide sets for the slide at index
ExplainState(index) ==
  IF index >= slidesLen THEN "finished" ELSE "auto_explaining"

\* explainCurrentSlide sends a narration request for an existing slide,
\* and sendTextToTutor passes it on only while a session handle is held
ExplainSends(index) == index < slidesLen /\ realtimeRef = "open"

\* explainCurrentSlide() with currentSlideIndexRef.current = index;
\* cleared: the caller called clearSubtitles() first
ExplainCurrentSlide(index, cleared) ==
  /\ tutorState' = ExplainState(index)
  /\ subtitlesText' =
       (IF cleared \/ index < slidesLen THEN "empty" ELSE subtitlesText)
  /\ IF ExplainSends(index)
       THEN /\ sent' = [slide |-> index, tick |-> ~sent.tick]
            /\ turns' = Min(turns + 1, MaxTurns)
       ELSE UNCHANGED <<sent, turns>>

SendTextToTutorNever == UNCHANGED <<subtitlesText, turns>>

\* sendTextToTutor(text) for a text that is not a slide narration
SendTextToTutor ==
  IF realtimeRef = "open"
    THEN /\ subtitlesText' = "empty"
         /\ turns' = Min(turns + 1, MaxTurns)
    ELSE UNCHANGED <<subtitlesText, turns>>

\* a handler that cleared the subtitles leaves a render pending if that
\* changed them
SubsTouched == subsChanged' = (subsChanged \/ subtitlesText' # subtitlesText)

UnmuteMicStateOnly == muted' = muted /\ isMicMuted' = FALSE

\* unmuteMic(): realtimeRef.current?.unmuteMic(); setIsMicMuted(false)
UnmuteMic == muted' = FALSE /\ isMicMuted' = FALSE

\* muteMic(): realtimeRef.current?.muteMic(); setIsMicMuted(true)
MuteMic ==
  /\ muted' = (IF realtimeRef = "open" THEN TRUE ELSE muted)
  /\ isMicMuted' = TRUE

IgnoreTurnCompleteNever == FALSE

IgnoreTurnCompleteAlways == TRUE

\* the visual branch of handleTurnComplete returns early while generating
IgnoreTurnComplete == isVisualGeneratingRef

\* ------------------------------------------- session events (TutorContext)

\* handleTurnComplete, reached through onTurnComplete.current, which the
\* registration effect sets only while isAutoMode is rendered true
HandleTurnComplete ==
  IF ~isAutoModeRef
    THEN UNCHANGED <<tutorState, timerv>>
    ELSE
      CASE stateRef = "auto_explaining" ->
             IF NextIndex(currentSlideIndexRef) >= slidesLen
               THEN /\ tutorState' = "finished"
                    /\ UNCHANGED timerv
               ELSE LET kept == clearTimeout(advTimers, advanceTimerRef)
                        id   == NewId(advTimers)
                    IN /\ advTimers' = kept \cup
                            {[id |-> id,
                              next |-> NextIndex(currentSlideIndexRef),
                              fresh |-> TRUE]}
                       /\ advanceTimerRef' = id
                       /\ UNCHANGED <<tutorState, researchTimerRef, resTimers,
                                      anonFresh, anonArmed>>
        [] stateRef \in {"answering", "paused_for_question", "research_mode"} ->
             /\ tutorState' = "waiting_to_resume"
             /\ UNCHANGED timerv
        [] stateRef = "visual_explaining" ->
             IF IgnoreTurnComplete
               THEN UNCHANGED <<tutorState, timerv>>
               ELSE /\ AnonCount("visualClose") < MaxAnon
                    /\ anonFresh' = [anonFresh EXCEPT !["visualClose"] = @ + 1]
                    /\ UNCHANGED <<tutorState, advanceTimerRef, researchTimerRef,
                                   advTimers, resTimers, anonArmed>>
        [] OTHER -> UNCHANGED <<tutorState, timerv>>

\* the session's onmessage for a turnComplete message
TurnComplete ==
  /\ UNCHANGED <<lectures, voicev, playv, auxv>>
  /\ realtimeRef = "open" /\ turns > 0
  /\ turns' = turns - 1
  /\ HandleTurnComplete
  /\ UNCHANGED <<stateRef, currentSlideIndex, currentSlideIndexRef, isAutoMode,
                 isAutoModeRef, slidesLen, pendingSlideExplainRef, visual,
                 sessv, textv, classify, researchPanelData, sent>>

\* handleUserSpeechDetected, registered for onUserSpeechDetected and
\* onUserActivity alike; played is the playback set before the handler
HandleUserSpeechDetected(played) ==
  IF isAutoModeRef /\ stateRef = "auto_explaining"
    THEN /\ advTimers' = clearTimeout(advTimers, advanceTimerRef)
         /\ advanceTimerRef' = 0
         /\ activeSources' = StopAudioPlayback(played)
         /\ tutorState' = "paused_for_question"
         /\ AnonCount("grace") < MaxAnon
         /\ anonFresh' = [anonFresh EXCEPT !["grace"] = @ + 1]
         /\ UNCHANGED <<researchTimerRef, resTimers, anonArmed>>
    ELSE /\ activeSources' = played
         /\ UNCHANGED <<tutorState, timerv>>

\* processor.onaudioprocess with a frame above the VAD threshold: the
\* activity callback, then the frame goes to the model, which answers
UserActivity ==
  /\ UNCHANGED <<lectures, voicev, playv, auxv>>
  /\ realtimeRef = "open" /\ ~muted
  /\ HandleUserSpeechDetected(activeSources)
  /\ turns' = Min(turns + 1, MaxTurns)
  /\ UNCHANGED <<stateRef, currentSlideIndex, currentSlideIndexRef, isAutoMode,
                 isAutoModeRef, slidesLen, pendingSlideExplainRef, visual,
                 isVoiceConnected, renderedVoiceConnected, isConnecting,
                 connectInFlight, realtimeRef, muted, isMicMuted, textv,
                 classify, researchPanelData, sent>>

\* handleMessage for an interrupted message: clearAudio(), then onInterrupted
Interrupted ==
  /\ UNCHANGED <<lectures, voicev, playv, auxv>>
  /\ realtimeRef = "open" /\ turns > 0
  /\ HandleUserSpeechDetected(ClearAudio(activeSources))
  /\ UNCHANGED <<stateRef, currentSlideIndex, currentSlideIndexRef, isAutoMode,
                 isAutoModeRef, slidesLen, pendingSlideExplainRef, visual,
                 isVoiceConnected, renderedVoiceConnected, isConnecting,
                 connectInFlight, realtimeRef, muted, isMicMuted, textv,
                 classify, researchPanelData, turns, sent>>

\* handleMessage for a model turn part with text: onText appends it
TextChunk(chunk) ==
  /\ UNCHANGED <<lectures, voicev, playv, auxv>>
  /\ realtimeRef = "open" /\ turns > 0
  /\ subtitlesText' = Concat(subtitlesText, chunk)
  /\ subsChanged' = TRUE
  /\ UNCHANGED <<machine, timerv, visual, sessv, classify, researchPanelData,
                 turns, sent>>

\* handleMessage for a model turn part with audio: one more scheduled source
AudioChunk ==
  /\ UNCHANGED <<lectures, voicev, playv, auxv>>
  /\ realtimeRef = "open" /\ turns > 0
  /\ activeSources < MaxQueue
  /\ activeSources' = activeSources + 1
  /\ UNCHANGED <<machine, timerv, visual, isVoiceConnected,
                 renderedVoiceConnected, isConnecting, connectInFlight,
                 realtimeRef, muted, isMicMuted, textv, classify,
                 researchPanelData, turns, sent>>

\* a source's "ended" listener
PlaybackEnded ==
  /\ UNCHANGED <<lectures, voicev, playv, auxv>>
  /\ activeSources > 0
  /\ activeSources' = activeSources - 1
  /\ UNCHANGED <<machine, timerv, visual, isVoiceConnected,
                 renderedVoiceConnected, isConnecting, connectInFlight,
                 realtimeRef, muted, isMicMuted, textv, classify,
                 researchPanelData, turns, sent>>

\* ------------------------------------------------------------ timers

\* the advance timer's callback (handleTurnComplete, setTimeout 1500)
AdvanceTimerFires ==
  /\ UNCHANGED <<lectures, voicev, playv, auxv>>
  /\ \E t \in advTimers :
    /\ ~t.fresh
    /\ advTimers' = advTimers \ {t}
    /\ advanceTimerRef' = 0
    /\ IF stateRef = "auto_explaining" /\ isAutoModeRef
         THEN /\ currentSlideIndex' = t.next
              /\ currentSlideIndexRef' = t.next
              /\ ExplainCurrentSlide(t.next, FALSE)
              /\ SubsTouched
         ELSE UNCHANGED <<currentSlideIndex, currentSlideIndexRef, tutorState,
                          textv, sent, turns>>
    /\ UNCHANGED <<stateRef, isAutoMode, isAutoModeRef, slidesLen,
                   pendingSlideExplainRef, researchTimerRef, resTimers,
                   anonFresh, anonArmed, visual, sessv, classify,
                   researchPanelData>>

\* the grace timer's callback (handleUserSpeechDetected, setTimeout 2000)
GraceTimerFires ==
  /\ UNCHANGED <<lectures, voicev, playv, auxv>>
  /\ anonArmed["grace"] > 0
  /\ anonArmed' = [anonArmed EXCEPT !["grace"] = @ - 1]
  /\ tutorState' = IF stateRef = "paused_for_question"
                     THEN "answering" ELSE tutorState
  /\ UNCHANGED <<stateRef, currentSlideIndex, currentSlideIndexRef, isAutoMode,
                 isAutoModeRef, slidesLen, pendingSlideExplainRef,
                 advanceTimerRef, researchTimerRef, advTimers, resTimers,
                 anonFresh, visual, sessv, textv, classify,
                 researchPanelData, turns, sent>>

\* the resume effect's delayed action (setTimeout 1000)
ResumeTimerFires ==
  /\ UNCHANGED <<lectures, voicev, playv, auxv>>
  /\ anonArmed["resume"] > 0
  /\ anonArmed' = [anonArmed EXCEPT !["resume"] = @ - 1]
  /\ IF ResumeApplies
       THEN LET nextIndex == NextIndex(currentSlideIndexRef)
                index == IF nextIndex < slidesLen
                           THEN nextIndex ELSE currentSlideIndexRef
            IN /\ currentSlideIndex' =
                    (IF nextIndex < slidesLen THEN nextIndex ELSE currentSlideIndex)
               /\ currentSlideIndexRef' = index
               /\ ExplainCurrentSlide(index, TRUE)
               /\ SubsTouched
       ELSE UNCHANGED <<currentSlideIndex, currentSlideIndexRef, tutorState,
                        textv, sent, turns>>
  /\ UNCHANGED <<stateRef, isAutoMode, isAutoModeRef, slidesLen,
                 pendingSlideExplainRef, advanceTimerRef, researchTimerRef,
                 advTimers, resTimers, anonFresh, visual, sessv, classify,
                 researchPanelData>>

\* the visual branch's delayed close (handleTurnComplete, setTimeout 1000)
VisualCloseTimerFires ==
  /\ UNCHANGED <<lectures, voicev, playv, auxv>>
  /\ anonArmed["visualClose"] > 0
  /\ anonArmed' = [anonArmed EXCEPT !["visualClose"] = @ - 1]
  /\ showVisualOverlay' = FALSE
  /\ visualOverlay' = "none"
  /\ UnmuteMic
  /\ tutorState' = "waiting_to_resume"
  /\ UNCHANGED <<stateRef, currentSlideIndex, currentSlideIndexRef, isAutoMode,
                 isAutoModeRef, slidesLen, pendingSlideExplainRef,
                 advanceTimerRef, researchTimerRef, advTimers, resTimers,
                 anonFresh, isVisualGeneratingRef, isVoiceConnected,
                 renderedVoiceConnected, isConnecting, connectInFlight,
                 realtimeRef, activeSources, textv, classify,
                 researchPanelData, turns, sent>>

\* the delayed first narration (startAutoExplain 500, connect effect 1000)
FirstNarrationTimerFires ==
  /\ UNCHANGED <<lectures, voicev, playv, auxv>>
  /\ anonArmed["firstNarration"] > 0
  /\ anonArmed' = [anonArmed EXCEPT !["firstNarration"] = @ - 1]
  /\ ExplainCurrentSlide(currentSlideIndexRef, FALSE)
  /\ SubsTouched
  /\ UNCHANGED <<stateRef, currentSlideIndex, currentSlideIndexRef, isAutoMode,
                 isAutoModeRef, slidesLen, pendingSlideExplainRef,
                 advanceTimerRef, researchTimerRef, advTimers, resTimers,
                 anonFresh, visual, sessv, classify, researchPanelData>>

\* the classification timer's callback up to its first await
\* (classification effect, setTimeout 3000)
ResearchTimerFires ==
  /\ UNCHANGED <<lectures, voicev, playv, auxv>>
  /\ \E t \in resTimers :
    /\ ~t.fresh
    /\ resTimers' = resTimers \ {t}
    /\ researchTimerRef' = 0
    /\ IF /\ stateRef = "answering"
          /\ currentSlideIndexRef < slidesLen
          /\ t.hasText
         THEN /\ AsyncCount < MaxAsync
              /\ classify' = [classify EXCEPT !["detect"] = @ + 1]
         ELSE UNCHANGED classify
    /\ UNCHANGED <<machine, advanceTimerRef, advTimers, anonFresh, anonArmed,
                   visual, sessv, textv, researchPanelData, turns, sent>>

\* ------------------------------- the classification body after its awaits

\* detectQuestionType resolved (it catches its own errors)
ClassifyResult(questionType) ==
  /\ UNCHANGED <<lectures, voicev, playv, auxv>>
  /\ classify["detect"] > 0
  /\ CASE questionType = "external" ->
            /\ classify' = [classify EXCEPT !["detect"] = @ - 1,
                                            !["research"] = @ + 1]
            /\ tutorState' = "research_mode"
            /\ researchPanelData' = "loading"
            /\ UNCHANGED <<visual, muted, isMicMuted, textv, turns>>
       [] questionType = "visual_request" ->
            /\ classify' = [classify EXCEPT !["detect"] = @ - 1,
                                            !["visual"] = @ + 1]
            /\ tutorState' = "visual_explaining"
            /\ MuteMic
            /\ isVisualGeneratingRef' = TRUE
            /\ visualOverlay' = "generating"
            /\ showVisualOverlay' = TRUE
            /\ SendTextToTutor
            /\ SubsTouched
            /\ UNCHANGED researchPanelData
       [] OTHER ->
            /\ classify' = [classify EXCEPT !["detect"] = @ - 1]
            /\ UNCHANGED <<tutorState, visual, muted, isMicMuted, textv, turns,
                           researchPanelData>>
  /\ UNCHANGED <<stateRef, currentSlideIndex, currentSlideIndexRef, isAutoMode,
                 isAutoModeRef, slidesLen, pendingSlideExplainRef, timerv,
                 isVoiceConnected, renderedVoiceConnected, isConnecting,
                 connectInFlight, realtimeRef, activeSources, sent>>

\* searchWeb, searchYouTube and summarizeForTeaching resolved (each catches
\* its own errors and returns a fallback)
ResearchDone ==
  /\ UNCHANGED <<lectures, voicev, playv, auxv>>
  /\ classify["research"] > 0
  /\ classify' = [classify EXCEPT !["research"] = @ - 1]
  /\ researchPanelData' = "ready"
  /\ SendTextToTutor
  /\ SubsTouched
  /\ UNCHANGED <<machine, timerv, visual, sessv, sent>>

\* generateVideoClip / getResearchImage settled: url, or null / a throw
VisualDone(hasUrl) ==
  /\ UNCHANGED <<lectures, voicev, playv, auxv>>
  /\ classify["visual"] > 0
  /\ classify' = [classify EXCEPT !["visual"] = @ - 1]
  /\ UNCHANGED researchPanelData
  /\ isVisualGeneratingRef' = FALSE
  /\ IF hasUrl
       THEN /\ visualOverlay' =
                 (IF visualOverlay = "none" THEN "none" ELSE "ready")
            /\ UNCHANGED <<showVisualOverlay, muted, isMicMuted, tutorState>>
       ELSE /\ showVisualOverlay' = FALSE
            /\ visualOverlay' = "none"
            /\ UnmuteMic
            /\ tutorState' = "answering"
  /\ SendTextToTutor
  /\ SubsTouched
  /\ UNCHANGED <<stateRef, currentSlideIndex, currentSlideIndexRef, isAutoMode,
                 isAutoModeRef, slidesLen, pendingSlideExplainRef, timerv,
                 isVoiceConnected, renderedVoiceConnected, isConnecting,
                 connectInFlight, realtimeRef, activeSources, sent>>

\* ------------------------------------------------- render and effects

Dirty ==
  \/ tutorState # stateRef
  \/ currentSlideIndex # currentSlideIndexRef
  \/ isAutoMode # isAutoModeRef
  \/ isVoiceConnected # renderedVoiceConnected
  \/ subsChanged
  \/ \E k \in AnonKinds : anonFresh[k] > 0
  \/ \E t \in advTimers \cup resTimers : t.fresh

\* the resume effect schedules its delayed action
ResumeHit ==
  /\ subsChanged
  /\ tutorState = "waiting_to_resume"
  /\ HasResumeKeyword(subtitlesText)

\* the classification effect restarts its timer
ClassifyRun ==
  /\ tutorState # stateRef \/ subsChanged
  /\ tutorState = "paused_for_question"

\* the connect effect schedules the first narration
PendingRun ==
  /\ isVoiceConnected /\ ~renderedVoiceConnected
  /\ pendingSlideExplainRef
  /\ isAutoMode

Arm(ts) == {[t EXCEPT !.fresh = FALSE] : t \in ts}

\* One render with its effects, in the order the component declares them:
\* the three ref syncs, the resume effect, the classification effect, the
\* connect effect.  Timers started before it may expire from now on.
Commit ==
  /\ UNCHANGED <<lectures, voicev, playv, auxv>>
  /\ Dirty
  /\ stateRef' = tutorState
  /\ currentSlideIndexRef' = currentSlideIndex
  /\ isAutoModeRef' = isAutoMode
  /\ renderedVoiceConnected' = isVoiceConnected
  /\ subsChanged' = FALSE
  /\ pendingSlideExplainRef' = (pendingSlideExplainRef /\ ~PendingRun)
  /\ anonFresh' = [k \in AnonKinds |-> 0]
  /\ anonArmed' =
       [k \in AnonKinds |->
          Min(MaxAnon,
              anonArmed[k] + anonFresh[k]
              + (IF k = "resume" /\ ResumeHit THEN 1 ELSE 0)
              + (IF k = "firstNarration" /\ PendingRun THEN 1 ELSE 0))]
  /\ advTimers' = Arm(advTimers)
  /\ IF ClassifyRun
       THEN LET kept == clearTimeout(Arm(resTimers), researchTimerRef)
                id   == NewId(kept)
            IN /\ resTimers' = kept \cup
                     {[id |-> id, hasText |-> subtitlesText # "empty",
                       fresh |-> FALSE]}
               /\ researchTimerRef' = id
       ELSE /\ resTimers' = Arm(resTimers)
            /\ UNCHANGED researchTimerRef
  /\ UNCHANGED <<tutorState, currentSlideIndex, isAutoMode, slidesLen,
                 advanceTimerRef, visual, isVoiceConnected, isConnecting,
                 connectInFlight, realtimeRef, muted, isMicMuted,
                 activeSources, subtitlesText, classify, researchPanelData,
                 turns, sent>>

\* ------------------------------------------------- the voice session

\* stopVoiceTutor(): the handle's stop() (clearAudio, release, close),
\* then the TutorContext state is reset.  muted is a flag of the session:
\* with no session it is written FALSE, the value a new session starts with.
StopVoiceTutor ==
  /\ realtimeRef' = "none"
  /\ activeSources' = (IF realtimeRef = "open"
                         THEN ClearAudio(activeSources) ELSE activeSources)
  /\ isVoiceConnected' = FALSE
  /\ isConnecting' = FALSE
  /\ isMicMuted' = FALSE
  /\ muted' = FALSE

\* startGeminiVoice resolved: onopen ran, the handle is stored, and
\* startAutoExplain continues after its await
ConnectSucceeds ==
  /\ UNCHANGED <<lectures, voicev, playv, auxv>>
  /\ connectInFlight
  /\ connectInFlight' = FALSE
  /\ isVoiceConnected' = TRUE
  /\ isConnecting' = FALSE
  /\ realtimeRef' = "open"
  /\ muted' = FALSE
  /\ activeSources' = 0
  /\ turns' = 0
  /\ pendingSlideExplainRef' = TRUE
  /\ UNCHANGED <<tutorState, stateRef, currentSlideIndex, currentSlideIndexRef,
                 isAutoMode, isAutoModeRef, slidesLen, timerv, visual,
                 renderedVoiceConnected, isMicMuted, textv, classify,
                 researchPanelData, sent>>

\* startGeminiVoice rejected (microphone or handshake): the catch block
\* calls stopVoiceTutor(), and startAutoExplain continues after its await
ConnectFails ==
  /\ UNCHANGED <<lectures, voicev, playv, auxv>>
  /\ connectInFlight
  /\ connectInFlight' = FALSE
  /\ StopVoiceTutor
  /\ subtitlesText' = "empty"
  /\ SubsTouched
  /\ pendingSlideExplainRef' = TRUE
  /\ UNCHANGED <<tutorState, stateRef, currentSlideIndex, currentSlideIndexRef,
                 isAutoMode, isAutoModeRef, slidesLen, timerv, visual,
                 renderedVoiceConnected, classify, researchPanelData, turns,
                 sent>>

\* ------------------------------------------------- user operations
\* The controls are rendered from the last render's isAutoMode and
\* tutorState, which the refs hold.  A click is handled on a settled
\* interface (nothing left to render), and React renders the updates of a
\* click handler and runs their effects before anything else runs: each
\* operation below ends with that render, so the refs follow at once.

\* startAutoExplain(slides) for a deck of n slides, up to its await.
\* startVoiceTutor returns at once while a connect is under way or a
\* session is recording.
StartAutoExplainBody(n) ==
  /\ lectures' = lectures + 1
  /\ slidesLen' = n
  /\ currentSlideIndex' = 0 /\ currentSlideIndexRef' = 0
  /\ isAutoMode' = TRUE /\ isAutoModeRef' = TRUE
  /\ tutorState' = "auto_explaining" /\ stateRef' = "auto_explaining"
  /\ showVisualOverlay' = FALSE
  /\ sent' = [slide |-> -1, tick |-> FALSE]
  /\ IF ~isVoiceConnected
       THEN IF isConnecting
              THEN /\ pendingSlideExplainRef' = TRUE
                   /\ UNCHANGED <<isConnecting, connectInFlight,
                                  subtitlesText, anonArmed>>
              ELSE /\ ~connectInFlight /\ realtimeRef = "none"
                   /\ isConnecting' = TRUE
                   /\ connectInFlight' = TRUE
                   /\ subtitlesText' = "empty"
                   /\ UNCHANGED <<pendingSlideExplainRef, anonArmed>>
       ELSE /\ AnonCount("firstNarration") < MaxAnon
            /\ anonArmed' = [anonArmed EXCEPT !["firstNarration"] = @ + 1]
            /\ UNCHANGED <<pendingSlideExplainRef, isConnecting,
                           connectInFlight, subtitlesText>>
  /\ UNCHANGED <<advanceTimerRef, researchTimerRef, advTimers, resTimers,
                 anonFresh, isVisualGeneratingRef, visualOverlay,
                 isVoiceConnected, renderedVoiceConnected, realtimeRef, muted,
                 isMicMuted, activeSources, subsChanged, classify,
                 researchPanelData, turns>>
  /\ UNCHANGED <<voicev, playv, auxv>>

\* the lecture toggle of the viewer: it calls startAutoExplain only while
\* isAutoMode is rendered false
StartAutoExplain(n) ==
  /\ ~Dirty /\ ~isAutoModeRef
  /\ lectures < MaxLectures
  /\ StartAutoExplainBody(n)

\* startAutoExplain called through the context while a lecture is active:
\* the function itself has no guard
StartAutoExplainAgain(n) ==
  /\ ~Dirty /\ isAutoModeRef
  /\ lectures = MaxLectures
  /\ StartAutoExplainBody(n)

\* the timers stopAutoExplain cancels (a ref to a timer that is no longer
\* pending is written 0: clearTimeout on it does nothing)
StopClearsAdvance(ts, id) == clearTimeout(ts, id)
StopClearsResearch(ts, id) == clearTimeout(ts, id)

\* stopAutoExplain()
StopAutoExplain ==
  /\ UNCHANGED <<lectures, voicev, playv, auxv>>
  /\ ~Dirty /\ isAutoModeRef
  /\ advTimers' = StopClearsAdvance(advTimers, advanceTimerRef)
  /\ resTimers' = StopClearsResearch(resTimers, researchTimerRef)
  /\ advanceTimerRef' = 0 /\ researchTimerRef' = 0
  /\ isAutoMode' = FALSE /\ isAutoModeRef' = FALSE
  /\ tutorState' = "idle" /\ stateRef' = "idle"
  /\ subtitlesText' = "empty"
  /\ showVisualOverlay' = FALSE
  /\ visualOverlay' = "none"
  /\ StopVoiceTutor
  /\ renderedVoiceConnected' = FALSE
  /\ turns' = 0
  /\ UNCHANGED <<currentSlideIndex, currentSlideIndexRef, slidesLen,
                 pendingSlideExplainRef, anonFresh, anonArmed,
                 isVisualGeneratingRef, connectInFlight, subsChanged,
                 classify, researchPanelData, sent>>

\* pauseAutoExplain(); the render that follows runs the classification
\* effect, which starts its timer
PauseAutoExplain ==
  /\ UNCHANGED <<lectures, voicev, playv, auxv>>
  /\ ~Dirty /\ isAutoModeRef /\ stateRef = "auto_explaining"
  /\ advTimers' = clearTimeout(advTimers, advanceTimerRef)
  /\ advanceTimerRef' = 0
  /\ activeSources' = StopAudioPlayback(activeSources)
  /\ tutorState' = "paused_for_question" /\ stateRef' = "paused_for_question"
  /\ LET kept == clearTimeout(resTimers, researchTimerRef)
         id   == NewId(kept)
     IN /\ resTimers' = kept \cup
              {[id |-> id, hasText |-> subtitlesText # "empty",
                fresh |-> FALSE]}
        /\ researchTimerRef' = id
  /\ UNCHANGED <<currentSlideIndex, currentSlideIndexRef, isAutoMode,
                 isAutoModeRef, slidesLen, pendingSlideExplainRef, anonFresh,
                 anonArmed, visual, isVoiceConnected, renderedVoiceConnected,
                 isConnecting, connectInFlight, realtimeRef, muted, isMicMuted,
                 textv, classify, researchPanelData, turns, sent>>

\* resumeAutoExplain()
ResumeAutoExplain ==
  /\ UNCHANGED <<lectures, voicev, playv, auxv>>
  /\ ~Dirty /\ isAutoModeRef
  /\ stateRef \in {"paused_for_question", "waiting_to_resume"}
  /\ LET nextIndex == NextIndex(currentSlideIndexRef)
         advance == /\ stateRef \in {"waiting_to_resume",
                                     "paused_for_question", "answering"}
                    /\ nextIndex < slidesLen
         index == IF advance THEN nextIndex ELSE currentSlideIndexRef
     IN /\ currentSlideIndex' = index
        /\ currentSlideIndexRef' = index
        /\ ExplainCurrentSlide(index, TRUE)
        /\ stateRef' = ExplainState(index)
  /\ UNCHANGED <<isAutoMode, isAutoModeRef, slidesLen, pendingSlideExplainRef,
                 timerv, visual, sessv, subsChanged, classify,
                 researchPanelData>>

\* whether goToSlide goes on to narrate the slide
GoToSlideNarrates == isAutoModeRef /\ stateRef # "idle"

\* goToSlide(index)
GoToSlide(index) ==
  /\ UNCHANGED <<lectures, voicev, playv, auxv>>
  /\ ~Dirty /\ isAutoModeRef
  /\ ~(index < 0 \/ index >= slidesLen)
  /\ advTimers' = clearTimeout(advTimers, advanceTimerRef)
  /\ advanceTimerRef' = 0
  /\ currentSlideIndex' = index
  /\ currentSlideIndexRef' = index
  /\ IF GoToSlideNarrates
       THEN /\ activeSources' = StopAudioPlayback(activeSources)
            /\ ExplainCurrentSlide(index, TRUE)
            /\ stateRef' = ExplainState(index)
       ELSE UNCHANGED <<activeSources, tutorState, stateRef, subtitlesText,
                        sent, turns>>
  /\ UNCHANGED <<isAutoMode, isAutoModeRef, slidesLen, pendingSlideExplainRef,
                 researchTimerRef, resTimers, anonFresh, anonArmed, visual,
                 isVoiceConnected, renderedVoiceConnected, isConnecting,
                 connectInFlight, realtimeRef, muted, isMicMuted, subsChanged,
                 classify, researchPanelData>>

\* goToSlide(index) with an index outside the deck returns at once
GoToSlideRejected(index) ==
  /\ ~Dirty /\ isAutoModeRef
  /\ index < 0 \/ index >= slidesLen
  /\ UNCHANGED vars

\* ------------------------------------------------- specification

Next ==
  \/ \E n \in 0..MaxSlides : StartAutoExplain(n)
  \/ ConnectSucceeds
  \/ ConnectFails
  \/ Commit
  \/ TurnComplete
  \/ UserActivity
  \/ Interrupted
  \/ \E c \in {"plain", "keyword"} : TextChunk(c)
  \/ AudioChunk
  \/ PlaybackEnded
  \/ AdvanceTimerFires
  \/ GraceTimerFires
  \/ ResumeTimerFires
  \/ VisualCloseTimerFires
  \/ FirstNarrationTimerFires
  \/ ResearchTimerFires
  \/ \E q \in {"slide_related", "general_concept", "external",
               "visual_request"} : ClassifyResult(q)
  \/ ResearchDone
  \/ \E u \in BOOLEAN : VisualDone(u)
  \/ StopAutoExplain
  \/ PauseAutoExplain
  \/ ResumeAutoExplain
  \/ \E k \in -1..MaxSlides : GoToSlide(k)
  \/ \E k \in -1..MaxSlides : GoToSlideRejected(k)

Spec == Init /\ [][Next]_vars

\* ------------------------------------------------- properties

\* a timer of any kind is still pending
TimerPending ==
  \/ advTimers # {}
  \/ resTimers # {}
  \/ \E k \in AnonKinds : AnonCount(k) > 0

\* C1: an explicit stop sets TutorState to idle and leaves no pending timer
\* of any kind (advance, grace, classification, resume-keyword,
\* visual-close, delayed first narration).
C1_StopLeavesNoTimer ==
  [][StopAutoExplain => (tutorState' = "idle" /\ ~TimerPending')]_vars

\* C4: at most one auto-advance timer is outstanding at any time, and it is
\* the one advanceTimerRef holds.
C4_OneAdvanceTimer ==
  /\ Cardinality(advTimers) <= 1
  /\ \A t \in advTimers : t.id = advanceTimerRef

\* C4 witness: an advance timer that was started while another was pending
\* (its id is not the first free one) and replaced it.
C4_Witness ==
  \E t \in advTimers : t.id # 1 /\ Cardinality(advTimers) = 1

C6_ResumeOnlyWhenWaiting ==
  [][/\ (Commit /\ tutorState # "waiting_to_resume")
          => anonArmed'["resume"] = anonArmed["resume"]
     /\ (TextChunk("keyword") /\ stateRef # "waiting_to_resume")
          => UNCHANGED <<tutorState, currentSlideIndex,
                         currentSlideIndexRef, sent>>
     /\ (ResumeTimerFires /\ stateRef # "waiting_to_resume")
          => UNCHANGED <<tutorState, currentSlideIndex,
                         currentSlideIndexRef, sent, turns,
                         subtitlesText>>]_vars

\* C6 witness: a resume action is pending and the state has left
\* waiting_to_resume.
C6_Witness ==
  /\ anonArmed["resume"] > 0
  /\ stateRef # "waiting_to_resume" /\ tutorState = stateRef
  /\ isAutoModeRef

\* C7: a turnComplete handled in visual_explaining while the visual is
\* still generating changes nothing: TutorState, the mute flags and the
\* overlay stay, and no close of the overlay is scheduled.
C7_TurnCompleteIgnoredWhileGenerating ==
  [][(TurnComplete /\ stateRef = "visual_explaining" /\ isVisualGeneratingRef)
       => UNCHANGED <<tutorState, muted, isMicMuted, showVisualOverlay,
                      visualOverlay, timerv>>]_vars

\* C7 witness: the turn of the "please wait" message has completed while
\* the visual is generating: still visual_explaining, muted, overlay shown.
C7_Witness ==
  /\ stateRef = "visual_explaining" /\ tutorState = "visual_explaining"
  /\ isVisualGeneratingRef /\ classify["visual"] > 0
  /\ turns = 0 /\ realtimeRef = "open"
  /\ muted /\ isMicMuted
  /\ showVisualOverlay /\ visualOverlay = "generating"

\* C8: when the visual generator rejects or returns no media in
\* visual_explaining, TutorState becomes answering and the microphone is
\* unmuted.
C8_VisualFailureFallsBack ==
  [][(VisualDone(FALSE) /\ tutorState = "visual_explaining")
       => (tutorState' = "answering" /\ ~muted' /\ ~isMicMuted')]_vars

\* C8 witness: the failure has just been handled in visual_explaining.
C8_Witness ==
  /\ tutorState = "answering" /\ stateRef = "visual_explaining"
  /\ ~muted /\ ~isMicMuted /\ realtimeRef = "open"
  /\ ~isVisualGeneratingRef /\ ~showVisualOverlay

VisualNext ==
  \/ \E n \in 1..MaxSlides : StartAutoExplain(n)
  \/ ConnectSucceeds
  \/ Commit
  \/ FirstNarrationTimerFires
  \/ TurnComplete
  \/ UserActivity
  \/ Interrupted
  \/ \E c \in {"plain", "keyword"} : TextChunk(c)
  \/ AdvanceTimerFires
  \/ GraceTimerFires
  \/ ResumeTimerFires
  \/ ResearchTimerFires
  \/ \E q \in {"slide_related", "external", "visual_request"} :
       ClassifyResult(q)
  \/ ResearchDone
  \/ \E u \in BOOLEAN : VisualDone(u)
  \/ VisualCloseTimerFires
  \/ StopAutoExplain
  \/ \E k \in 0..MaxSlides : GoToSlide(k)

\* a pending render is made and a pending close timer expires
SpecVisual ==
  /\ Init /\ [][VisualNext]_vars
  /\ WF_vars(Commit)
  /\ WF_vars(VisualCloseTimerFires)

\* C9: once a turnComplete is handled in visual_explaining after the
\* generation has completed, the close of the overlay is scheduled, and
\* TutorState then becomes waiting_to_resume with the microphone unmuted.
C9_VisualSuccess ==
  /\ [][(TurnComplete /\ isAutoModeRef /\ stateRef = "visual_explaining"
           /\ ~isVisualGeneratingRef)
          => anonFresh'["visualClose"] = anonFresh["visualClose"] + 1]_vars
  /\ (AnonCount("visualClose") > 0)
       ~> (tutorState = "waiting_to_resume" /\ ~muted /\ ~isMicMuted)

\* C9 witness: the scheduled close has run in visual_explaining: the
\* overlay is closed, the microphone unmuted, the state waiting_to_resume.
C9_Witness ==
  /\ tutorState = "waiting_to_resume" /\ stateRef = "visual_explaining"
  /\ isAutoModeRef /\ realtimeRef = "open"
  /\ ~isVisualGeneratingRef /\ ~showVisualOverlay
  /\ ~muted /\ ~isMicMuted /\ AnonCount("visualClose") = 0

\* ------------------------------------------------- the uninterrupted lecture

\* a lecture on a deck of at least one slide whose session connects, with
\* no user interruption and no user command after the start; the decks go
\* one slide further than in the full model
MaxHappySlides == MaxSlides + 1

HappyNext ==
  \/ \E n \in 1..MaxHappySlides : StartAutoExplain(n)
  \/ ConnectSucceeds
  \/ Commit
  \/ FirstNarrationTimerFires
  \/ \E c \in {"plain", "keyword"} : TextChunk(c)
  \/ AudioChunk
  \/ PlaybackEnded
  \/ TurnComplete
  \/ AdvanceTimerFires

\* the connect settles, the model completes each turn, renders are made
\* and timers expire
SpecHappy ==
  /\ Init /\ [][HappyNext]_vars
  /\ WF_vars(ConnectSucceeds)
  /\ WF_vars(Commit)
  /\ WF_vars(FirstNarrationTimerFires)
  /\ WF_vars(TurnComplete)
  /\ WF_vars(AdvanceTimerFires)

\* C2: in an uninterrupted lecture on N >= 1 slides every narration request
\* is for the slide after the one requested before (slide 0 first), so the
\* requests go 0..N-1 in order and once each; TutorState is finished only
\* with slide N-1 requested, and the lecture does reach finished.
C2_HappyPath ==
  /\ [][sent' # sent
          => (sent'.slide = sent.slide + 1 /\ sent'.slide < slidesLen')]_vars
  /\ [](tutorState = "finished" => sent.slide = slidesLen - 1)
  /\ (lectures > 0) ~> (tutorState = "finished")

\* C2 witness: a deck of several slides has been narrated to its end.
C2_Witness ==
  /\ tutorState = "finished" /\ slidesLen > 1
  /\ sent.slide = slidesLen - 1 /\ currentSlideIndex = slidesLen - 1
  /\ turns = 0

\* ------------------------------------------------- the interruption

\* nothing but the render and the grace timer happens while the lecture is
\* paused for a question
Lecturing == tutorState # "paused_for_question"

InterruptNext ==
  \/ Lecturing /\ \E n \in 1..MaxSlides : StartAutoExplain(n)
  \/ Lecturing /\ ConnectSucceeds
  \/ Lecturing /\ FirstNarrationTimerFires
  \/ Lecturing /\ \E c \in {"plain", "keyword"} : TextChunk(c)
  \/ Lecturing /\ AudioChunk
  \/ Lecturing /\ PlaybackEnded
  \/ Lecturing /\ TurnComplete
  \/ Lecturing /\ AdvanceTimerFires
  \/ Lecturing /\ UserActivity
  \/ Lecturing /\ Interrupted
  \/ Lecturing /\ ResumeTimerFires
  \/ Lecturing /\ ResumeAutoExplain
  \/ Lecturing /\ \E k \in 0..MaxSlides : GoToSlide(k)
  \/ Commit
  \/ GraceTimerFires

\* renders are made and the grace timer expires
SpecInterrupt ==
  /\ Init /\ [][InterruptNext]_vars
  /\ WF_vars(Commit)
  /\ WF_vars(GraceTimerFires)

\* C3: a userActivity or interrupted event handled in auto_explaining
\* cancels the advance timer, empties the playback, puts TutorState in
\* paused_for_question and starts the grace timer; with nothing else
\* happening the grace timer then puts TutorState in answering, the slide
\* index unchanged.
C3_InterruptionPauses ==
  /\ [][((UserActivity \/ Interrupted)
           /\ isAutoModeRef /\ stateRef = "auto_explaining")
          => /\ advTimers' = {} /\ advanceTimerRef' = 0
             /\ activeSources' = 0
             /\ tutorState' = "paused_for_question"
             /\ anonFresh'["grace"] = anonFresh["grace"] + 1
             /\ UNCHANGED <<currentSlideIndex, currentSlideIndexRef>>]_vars
  /\ \A i \in 0..MaxSlides :
       (tutorState = "paused_for_question" /\ currentSlideIndex = i)
         ~> (tutorState = "answering" /\ currentSlideIndex = i)

\* C3 witness: the grace timer of an interruption has put the lecture in
\* answering, at a slide after the first.
C3_Witness ==
  /\ tutorState = "answering" /\ stateRef = "paused_for_question"
  /\ AnonCount("grace") = 0 /\ isAutoModeRef
  /\ currentSlideIndex > 0 /\ activeSources = 0 /\ advTimers = {}

\* ------------------------------------------------- index, edges, failed start

\* C11: in every state of a lecture the slide index i satisfies
\* 0 <= i < slideCount, whatever deck the lecture was started with.
C11_IndexInRange ==
  isAutoMode => (0 <= currentSlideIndex /\ currentSlideIndex < slidesLen)

\* C12: every change of TutorState follows an edge of the transition table
\* (any non-idle state may go to idle by stop), and finished is left only
\* for idle.
C12_TableEdgesOnly ==
  [][tutorState' # tutorState
       => \/ tutorState' = "idle"
          \/ <<tutorState, tutorState'>> \in
               {<<"idle", "auto_explaining">>,
                <<"auto_explaining", "finished">>,
                <<"auto_explaining", "paused_for_question">>,
                <<"paused_for_question", "answering">>,
                <<"paused_for_question", "waiting_to_resume">>,
                <<"answering", "waiting_to_resume">>,
                <<"answering", "research_mode">>,
                <<"research_mode", "waiting_to_resume">>,
                <<"answering", "visual_explaining">>,
                <<"visual_explaining", "waiting_to_resume">>,
                <<"visual_explaining", "answering">>,
                <<"waiting_to_resume", "auto_explaining">>}]_vars

\* C16: when the session fails to start during startLecture, the lecture is
\* not left half-started: TutorState ends in idle with no session.
C16_FailedStartEndsIdle ==
  [][ConnectFails
       => (tutorState' = "idle" /\ ~isAutoMode'
           /\ ~isVoiceConnected' /\ realtimeRef' = "none")]_vars

\* ------------------------------------------------- start during a lecture
\* Lectures in which startAutoExplain is called once more while the
\* lecture runs.

RestartNext ==
  \/ \E n \in 1..MaxSlides : StartAutoExplain(n)
  \/ \E n \in 1..MaxSlides : StartAutoExplainAgain(n)
  \/ ConnectSucceeds
  \/ Commit
  \/ FirstNarrationTimerFires
  \/ TurnComplete
  \/ AdvanceTimerFires
  \/ \E k \in 0..MaxSlides - 1 : GoToSlide(k)
  \/ StopAutoExplain

SpecRestart == Init /\ [][RestartNext]_vars

\* C13: a startLecture during an active lecture is refused: it does not
\* replace the deck, reset the slide index or start another session.
C13_StartWhileActiveRefused ==
  [][(\E n \in 1..MaxSlides : StartAutoExplainAgain(n))
       => /\ slidesLen' = slidesLen
          /\ currentSlideIndex' = currentSlideIndex
          /\ connectInFlight' = connectInFlight
          /\ AnonCount("firstNarration")' = AnonCount("firstNarration")]_vars

\* ------------------------------------------------- the voice session layer
\* startGeminiVoice and the start/stop of the tutor context, one record per
\* startGeminiVoice call.  tutorCtx.rendered holds the isRecording and
\* isConnecting of the last render: startVoiceTutor is a callback of that
\* render and its guard reads them.

\* clearAudio of one session
ClearAudioOf(h) == [h EXCEPT !.activeSources = 0, !.isSpeaking = FALSE]

\* the test every operation of a handle starts with
AlreadyStoppedNever(h) == FALSE
AlreadyStopped(h) == h.stopped

\* handle.stop()
StopHandle(h) ==
  IF AlreadyStopped(h)
    THEN h
    ELSE [ClearAudioOf(h) EXCEPT !.stopped = TRUE, !.stream = "stopped",
                                 !.audioContext = "closed",
                                 !.inputAudioContext = "closed",
                                 !.socket = "closed"]

\* what a caller of handle.stop() can observe of it
StopEffect(s) ==
  [call |-> "stop", session |-> s, done |-> ~AlreadyStopped(handles[s]),
   speakingStop |-> ~AlreadyStopped(handles[s]) /\ handles[s].isSpeaking]

\* stopVoiceTutor
StopVoiceTutorBody ==
  /\ tutorCtx' = [tutorCtx EXCEPT !.isRecording = FALSE,
                                  !.isConnecting = FALSE,
                                  !.realtimeRef = 0]
  /\ IF tutorCtx.realtimeRef # 0
       THEN /\ handles' = [handles EXCEPT ![tutorCtx.realtimeRef] =
                             StopHandle(@)]
            /\ effect' = StopEffect(tutorCtx.realtimeRef)
       ELSE UNCHANGED <<handles, effect>>

UnusedSessions == {s \in SessionIds : handles[s].stage = "none"}

StartVoiceTutorGuard ==
  ~(tutorCtx.rendered.isRecording \/ tutorCtx.rendered.isConnecting)

\* startVoiceTutor up to the await of getUserMedia in startGeminiVoice
StartVoiceTutor ==
  /\ StartVoiceTutorGuard
  /\ UnusedSessions # {}
  /\ LET s == CHOOSE u \in UnusedSessions : \A v \in UnusedSessions : u <= v
     IN handles' = [handles EXCEPT ![s] =
                      [NoSession EXCEPT !.stage = "mic",
                                        !.audioContext = "running",
                                        !.inputAudioContext = "running"]]
  /\ tutorCtx' = [tutorCtx EXCEPT !.isConnecting = TRUE]
  /\ UNCHANGED <<corev, playv, auxv, effect>>

\* startVoiceTutor returning at its guard
StartVoiceTutorSkipped ==
  /\ ~StartVoiceTutorGuard
  /\ UNCHANGED vars

\* a render of the tutor context
RenderVoice ==
  /\ tutorCtx.rendered # [isRecording |-> tutorCtx.isRecording,
                          isConnecting |-> tutorCtx.isConnecting]
  /\ tutorCtx' = [tutorCtx EXCEPT !.rendered =
                    [isRecording |-> tutorCtx.isRecording,
                     isConnecting |-> tutorCtx.isConnecting]]
  /\ UNCHANGED <<corev, playv, auxv, handles, effect>>

\* getUserMedia resolves; ai.live.connect is called
MicGranted(s) ==
  /\ handles[s].stage = "mic"
  /\ handles' = [handles EXCEPT ![s].stage = "connecting",
                                ![s].stream = "live",
                                ![s].socket = "connecting"]
  /\ UNCHANGED <<corev, playv, auxv, tutorCtx, effect>>

\* getUserMedia rejects: startGeminiVoice throws, startVoiceTutor catches
MicDenied(s) ==
  /\ handles[s].stage = "mic"
  /\ LET failed == [handles EXCEPT ![s].stage = "rejected"]
     IN IF tutorCtx.realtimeRef # 0
          THEN /\ handles' = [failed EXCEPT ![tutorCtx.realtimeRef] =
                                StopHandle(@)]
               /\ effect' = StopEffect(tutorCtx.realtimeRef)
          ELSE /\ handles' = failed
               /\ UNCHANGED effect
  /\ tutorCtx' = [tutorCtx EXCEPT !.isRecording = FALSE,
                                  !.isConnecting = FALSE,
                                  !.realtimeRef = 0]
  /\ UNCHANGED <<corev, playv, auxv>>

\* the socket opens: onOpen, the session promise resolves, startGeminiVoice
\* returns the handle and startVoiceTutor stores it
SessionOpens(s) ==
  /\ handles[s].stage = "connecting"
  /\ handles' = [handles EXCEPT ![s].stage = "ready", ![s].socket = "open"]
  /\ tutorCtx' = [tutorCtx EXCEPT !.isRecording = TRUE,
                                  !.isConnecting = FALSE,
                                  !.realtimeRef = s]
  /\ UNCHANGED <<corev, playv, auxv, effect>>

\* the handshake fails: the session promise rejects, startGeminiVoice
\* throws, startVoiceTutor catches
HandshakeFails(s) ==
  /\ handles[s].stage = "connecting"
  /\ LET failed == [handles EXCEPT ![s].stage = "rejected",
                                   ![s].socket = "closed"]
     IN IF tutorCtx.realtimeRef # 0
          THEN /\ handles' = [failed EXCEPT ![tutorCtx.realtimeRef] =
                                StopHandle(@)]
               /\ effect' = StopEffect(tutorCtx.realtimeRef)
          ELSE /\ handles' = failed
               /\ UNCHANGED effect
  /\ tutorCtx' = [tutorCtx EXCEPT !.isRecording = FALSE,
                                  !.isConnecting = FALSE,
                                  !.realtimeRef = 0]
  /\ UNCHANGED <<corev, playv, auxv>>

\* stopVoiceTutor called by a control or by stopAutoExplain
StopVoiceTutorCall ==
  /\ StopVoiceTutorBody
  /\ UNCHANGED <<corev, playv, auxv>>

\* the remote end closes an open socket: onClose
ServerCloses(s) ==
  /\ handles[s].socket = "open"
  /\ handles' = [handles EXCEPT ![s].socket = "closed"]
  /\ tutorCtx' = [tutorCtx EXCEPT !.isRecording = FALSE,
                                  !.isConnecting = FALSE]
  /\ UNCHANGED <<corev, playv, auxv, effect>>

\* stop() of a returned handle
HandleStop(s) ==
  /\ handles[s].stage = "ready"
  /\ handles' = [handles EXCEPT ![s] = StopHandle(@)]
  /\ effect' = StopEffect(s)
  /\ UNCHANGED <<corev, playv, auxv, tutorCtx>>

\* sendText(text) of a returned handle
HandleSendText(s) ==
  /\ handles[s].stage = "ready"
  /\ effect' = [call |-> "sendText", session |-> s,
                done |-> ~AlreadyStopped(handles[s]), speakingStop |-> FALSE]
  /\ UNCHANGED <<corev, playv, auxv, tutorCtx, handles>>

\* onaudioprocess of the capture node, installed by onopen
CaptureFrame(s) ==
  /\ handles[s].stage = "ready"
  /\ effect' = [call |-> "frame", session |-> s,
                done |-> ~AlreadyStopped(handles[s]), speakingStop |-> FALSE]
  /\ UNCHANGED <<corev, playv, auxv, tutorCtx, handles>>

\* handleMessage for an audio part: the socket delivers messages only
\* while it is open
AudioArrives(s) ==
  /\ handles[s].socket = "open"
  /\ handles[s].activeSources < MaxQueue
  /\ handles' = [handles EXCEPT ![s].isSpeaking = TRUE,
                                ![s].activeSources = @ + 1]
  /\ UNCHANGED <<corev, playv, auxv, tutorCtx, effect>>

\* the ended listener of a source
SessionSourceEnded(s) ==
  /\ handles[s].activeSources > 0
  /\ handles' = [handles EXCEPT
                   ![s].activeSources = @ - 1,
                   ![s].isSpeaking = @ /\ handles[s].activeSources > 1]
  /\ UNCHANGED <<corev, playv, auxv, tutorCtx, effect>>

VoiceNext ==
  \/ StartVoiceTutor
  \/ StartVoiceTutorSkipped
  \/ RenderVoice
  \/ StopVoiceTutorCall
  \/ \E s \in SessionIds : MicGranted(s)
  \/ \E s \in SessionIds : MicDenied(s)
  \/ \E s \in SessionIds : SessionOpens(s)
  \/ \E s \in SessionIds : HandshakeFails(s)
  \/ \E s \in SessionIds : ServerCloses(s)
  \/ \E s \in SessionIds : HandleStop(s)
  \/ \E s \in SessionIds : HandleSendText(s)
  \/ \E s \in SessionIds : CaptureFrame(s)
  \/ \E s \in SessionIds : AudioArrives(s)
  \/ \E s \in SessionIds : SessionSourceEnded(s)

SpecVoice == Init /\ [][VoiceNext]_vars

\* a session that holds the microphone or a connection
SessionAlive(h) == h.stream = "live" \/ h.socket \in {"connecting", "open"}

\* the resources of a startGeminiVoice call are released
Released(h) ==
  /\ h.stream # "live"
  /\ h.audioContext # "running"
  /\ h.inputAudioContext # "running"

\* C14: at most one realtime audio session (microphone stream and
\* connection) is alive at any time, for any interleaving of startVoiceTutor
\* calls.
C14_OneSessionAlive ==
  Cardinality({s \in SessionIds : SessionAlive(handles[s])}) <= 1

\* C15: when connect fails (microphone denied or handshake failed) every
\* resource acquired so far is released before the failure is returned.
C15_FailedConnectReleases ==
  [][\A s \in SessionIds :
       (MicDenied(s) \/ HandshakeFails(s)) => Released(handles'[s])]_vars

\* C17: stop is effective immediately in every session state: after
\* stopVoiceTutor returns the microphone is released and no session is
\* active, and none becomes active without a new start.
C17_StopEffectiveAtOnce ==
  /\ [][StopVoiceTutorCall
          => \A s \in SessionIds : ~SessionAlive(handles'[s])]_vars
  /\ [][\A s \in SessionIds :
          SessionOpens(s) => tutorCtx.isConnecting]_vars

\* C18: stop() of a session is idempotent: on a stopped session a further
\* stop() tears nothing down and emits no onSpeakingStop, no captured frame
\* and no text is sent, and no playback item is scheduled.
C18_StopIdempotent ==
  /\ [](\A s \in SessionIds :
          handles[s].stopped
            => /\ handles[s].activeSources = 0
               /\ ~handles[s].isSpeaking
               /\ ~SessionAlive(handles[s]))
  /\ [][\A s \in SessionIds :
          handles[s].stopped
            => /\ HandleStop(s)
                  => (handles' = handles /\ ~effect'.done
                      /\ ~effect'.speakingStop)
               /\ HandleSendText(s) => ~effect'.done
               /\ CaptureFrame(s) => ~effect'.done
               /\ handles'[s].stopped]_vars

\* a second stop() on a session that was stopped while it was speaking
C18_Witness ==
  /\ effect.call = "stop" /\ ~effect.done
  /\ handles[effect.session].stopped
  /\ \E s \in SessionIds : handles[s].stopped /\ handles[s].stage = "ready"

\* ------------------------------------------------- the playback schedule
\* One session's nextStartTime, isSpeaking and activeSources against the
\* clock of its audio context.  scheduled lists the frames started since
\* the last clearAudio: start, duration and the clock at the enqueue;
\* activeSources holds the positions in it of the sources not yet ended,
\* stopping counts the ended events owed by sources that clearAudio stopped,
\* dropped tells that a frame failed to decode since the last clearAudio.

\* clearAudio: the sources it stops deliver their ended events later
ClearAudioPlayer(p) ==
  [nextStartTime |-> 0, isSpeaking |-> FALSE, activeSources |-> {},
   stopping |-> Min(MaxFrames, p.stopping + Cardinality(p.activeSources)),
   dropped |-> FALSE]

\* the onSpeakingStop of clearAudio
ClearAudioCalls(p) == IF p.isSpeaking THEN -1 ELSE 0

\* the playback state at the call of callbacks.onInterrupted
AtOnInterruptedEarly(p) == p
AtOnInterrupted(p) == ClearAudioPlayer(p)

\* Math.max(nextStartTime, audioContext.currentTime)
StartTimeNow(next, now) == now
StartTime(next, now) == IF next > now THEN next ELSE now

\* the clock of the audio context advances
Tick ==
  /\ currentTime < MaxClock
  /\ currentTime' = currentTime + 1
  /\ UNCHANGED <<corev, voicev, auxv, player, scheduled, atInterrupted,
                 speakingCalls, lastPlay>>

\* handleMessage for an audio part that decodes to a buffer of duration d
Enqueue(d) ==
  /\ Len(scheduled) < MaxFrames
  /\ LET start == StartTime(player.nextStartTime, currentTime)
     IN /\ scheduled' = Append(scheduled,
                               [start |-> start, duration |-> d,
                                at |-> currentTime])
        /\ player' = [player EXCEPT
                        !.nextStartTime = start + d,
                        !.isSpeaking = TRUE,
                        !.activeSources = @ \cup {Len(scheduled) + 1}]
  /\ speakingCalls' = speakingCalls + (IF player.isSpeaking THEN 0 ELSE 1)
  /\ lastPlay' = "audio"
  /\ UNCHANGED <<corev, voicev, auxv, currentTime, atInterrupted>>

\* new Int16Array(data.buffer) in decodeAudioData throws a RangeError for a
\* buffer of odd byte length (numChannels is 1 at the call)
DecodeThrowsNever(len) == FALSE
DecodeThrows(len) == len % 2 # 0

\* handleMessage for an audio part whose decode throws: isSpeaking was set
\* and onSpeakingStart called before the try, the catch only logs
DropAudio ==
  /\ player' = [player EXCEPT !.isSpeaking = TRUE, !.dropped = TRUE]
  /\ speakingCalls' = speakingCalls + (IF player.isSpeaking THEN 0 ELSE 1)
  /\ lastPlay' = "dropped"
  /\ UNCHANGED <<corev, voicev, auxv, currentTime, scheduled, atInterrupted>>

\* handleMessage for an audio part of len bytes (two bytes per sample, one
\* tick of playback per sample)
AudioPart(len) ==
  IF DecodeThrows(len) THEN DropAudio ELSE Enqueue(len \div 2)

\* the test of the ended listener, after it has deleted source i
EndedEmitsAlways(p, i) == p.isSpeaking
EndedEmits(p, i) == p.activeSources \ {i} = {} /\ p.isSpeaking

\* the ended listener of source i, once it has played to its end
SourceEnded(i) ==
  /\ i \in player.activeSources
  /\ scheduled[i].start + scheduled[i].duration <= currentTime
  /\ player' = [player EXCEPT
                  !.activeSources = @ \ {i},
                  !.isSpeaking = @ /\ ~EndedEmits(player, i)]
  /\ speakingCalls' = speakingCalls - (IF EndedEmits(player, i) THEN 1 ELSE 0)
  /\ lastPlay' = "ended"
  /\ UNCHANGED <<corev, voicev, auxv, currentTime, scheduled, atInterrupted>>

\* the ended listener of a source that clearAudio stopped
StoppedSourceEnded ==
  /\ player.stopping > 0
  /\ player' = [player EXCEPT
                  !.stopping = @ - 1,
                  !.isSpeaking = @ /\ ~EndedEmits(player, 0)]
  /\ speakingCalls' = speakingCalls - (IF EndedEmits(player, 0) THEN 1 ELSE 0)
  /\ lastPlay' = "ended"
  /\ UNCHANGED <<corev, voicev, auxv, currentTime, scheduled, atInterrupted>>

\* handleMessage for serverContent.interrupted
InterruptedMessage ==
  /\ LET seen == AtOnInterrupted(player)
     IN atInterrupted' = [taken |-> TRUE,
                          cleared |-> Cardinality(player.activeSources),
                          activeSources |-> Cardinality(seen.activeSources),
                          nextStartTime |-> seen.nextStartTime,
                          isSpeaking |-> seen.isSpeaking]
  /\ player' = ClearAudioPlayer(player)
  /\ speakingCalls' = speakingCalls + ClearAudioCalls(player)
  /\ scheduled' = << >>
  /\ lastPlay' = "interrupted"
  /\ UNCHANGED <<corev, voicev, auxv, currentTime>>

\* clearAudio() of the handle, called by stopAudioPlayback
HandleClearAudio ==
  /\ player' = ClearAudioPlayer(player)
  /\ speakingCalls' = speakingCalls + ClearAudioCalls(player)
  /\ scheduled' = << >>
  /\ lastPlay' = "clear"
  /\ UNCHANGED <<corev, voicev, auxv, currentTime, atInterrupted>>

PlaybackNext ==
  \/ Tick
  \/ \E len \in 1..2 * MaxDuration : AudioPart(len)
  \/ \E i \in 1..MaxFrames : SourceEnded(i)
  \/ StoppedSourceEnded
  \/ InterruptedMessage
  \/ HandleClearAudio

SpecPlayback == Init /\ [][PlaybackNext]_vars

\* C19: on an inbound interrupted event the session clears the playback
\* queue before forwarding it: when onInterrupted is delivered the scheduled
\* set is empty, nextStartTime is 0 and the session no longer counts as
\* speaking (the onSpeakingStop owed has been delivered).
C19_ClearedBeforeInterrupted ==
  atInterrupted.taken
    => /\ atInterrupted.activeSources = 0
       /\ atInterrupted.nextStartTime = 0
       /\ ~atInterrupted.isSpeaking

\* an interrupted event that arrived while sources were scheduled
C19_Witness == atInterrupted.taken /\ atInterrupted.cleared > 0

\* C20: scheduled playback never overlaps: with no clear in between, each
\* frame starts at or after the end of the frame before it, and every frame
\* starts at or after the clock time of its enqueue.
C20_NoOverlap ==
  /\ \A i \in 1..Len(scheduled) : scheduled[i].start >= scheduled[i].at
  /\ \A i \in 1..Len(scheduled) - 1 :
       scheduled[i + 1].start >= scheduled[i].start + scheduled[i].duration

\* a frame queued behind one still playing, and a frame enqueued after a gap
C20_Witness ==
  /\ Len(scheduled) = MaxFrames
  /\ scheduled[2].at < scheduled[2].start
  /\ scheduled[2].start = scheduled[1].start + scheduled[1].duration
  /\ scheduled[3].start > scheduled[2].start + scheduled[2].duration

\* C21: onSpeakingStart and onSpeakingStop strictly alternate, beginning
\* with a start; a stop is emitted only when no scheduled item is left, and
\* the end of the last scheduled item of a burst emits it.
C21_SpeakingStopOncePerBurst ==
  /\ [](speakingCalls \in {0, 1})
  /\ [][speakingCalls' < speakingCalls => player'.activeSources = {}]_vars
  /\ [][\A i \in 1..MaxFrames :
          (SourceEnded(i) /\ player.activeSources = {i})
            => speakingCalls' = 0]_vars

\* the first of two frames of one burst has ended and no stop was emitted
C21_Witness ==
  /\ lastPlay = "ended" /\ speakingCalls = 1
  /\ Len(scheduled) >= 2 /\ player.activeSources # {}
  /\ 1 \notin player.activeSources

\* C22: clear() on an empty queue emits no ended event, clear() twice in a
\* row emits at most one, and after any clear the scheduled set is empty
\* and nextStartTime is 0.
C22_ClearIdempotent ==
  [][HandleClearAudio
       => /\ player'.activeSources = {} /\ player'.nextStartTime = 0
          /\ (player.activeSources = {} => speakingCalls' = speakingCalls)
          /\ (lastPlay = "clear" => speakingCalls' = speakingCalls)]_vars

\* C27: an audio part whose byte length is odd is dropped on its own: it
\* schedules no playback item and leaves nextStartTime as it was, and later
\* parts are scheduled as usual.
C27_MalformedFrameDropped ==
  /\ [][\A len \in 1..2 * MaxDuration :
          (len % 2 # 0 /\ AudioPart(len))
            => /\ scheduled' = scheduled
               /\ player'.nextStartTime = player.nextStartTime
               /\ player'.activeSources = player.activeSources]_vars
  /\ [][\A len \in 1..2 * MaxDuration :
          (len % 2 = 0 /\ player.dropped /\ AudioPart(len))
            => /\ Len(scheduled') = Len(scheduled) + 1
               /\ player'.nextStartTime
                    = StartTime(player.nextStartTime, currentTime) + len \div 2
          ]_vars

\* a frame scheduled after a dropped one, behind a frame that was scheduled
\* before it
C27_Witness ==
  /\ player.dropped /\ lastPlay = "audio"
  /\ Len(scheduled) >= 2

\* ------------------------------------------------- microphone capture
\* onaudioprocess of one open session (local VAD, encode and send) with
\* the handle's muteMic, unmuteMic and stop.  frameOut records for the last
\* captured frame the flags it met, whether the microphone had been muted
\* and unmuted before it (unmuted), the time since the last activity event
\* (gap, -1 before the first) and what it caused.

\* the first test of onaudioprocess
GatedStoppedOnly(c) == c.stopped
Gated(c) == c.stopped \/ c.muted

\* now - lastActivityTime > 500
VadElapsedAtLeast(now, last) == now - last >= VadWindow
VadElapsed(now, last) == now - last > VadWindow

\* Date.now() advances by 100 ms
DateAdvances ==
  /\ dateNow < VadWindow + 1 + MaxVadTicks
  /\ dateNow' = dateNow + 1
  /\ UNCHANGED <<latev, corev, voicev, playv, capture, frameOut, bridgev,
                 toolCalls, codec>>

\* onaudioprocess for one frame whose RMS is above the threshold (loud) or
\* not
OnAudioProcess(loud) ==
  /\ LET seen == [taken |-> TRUE, loud |-> loud, muted |-> capture.muted,
                  stopped |-> capture.stopped,
                  unmuted |-> capture.unmuted,
                  gap |-> IF capture.emittedAt = 0 THEN -1
                          ELSE dateNow - capture.emittedAt,
                  activity |-> FALSE, sent |-> FALSE]
         activity == loud /\ VadElapsed(dateNow, capture.lastActivityTime)
     IN IF Gated(capture)
          THEN /\ frameOut' = seen
               /\ UNCHANGED capture
          ELSE /\ frameOut' = [seen EXCEPT !.activity = activity,
                                           !.sent = TRUE]
               /\ capture' = IF activity
                               THEN [capture EXCEPT
                                       !.lastActivityTime = dateNow,
                                       !.emittedAt = dateNow]
                               ELSE capture
  /\ UNCHANGED <<latev, corev, voicev, playv, dateNow, bridgev, toolCalls,
                 codec>>

\* muteMic() of the handle
SessionMuteMic ==
  /\ capture' = [capture EXCEPT !.muted = TRUE]
  /\ UNCHANGED <<latev, corev, voicev, playv, dateNow, frameOut, bridgev,
                 toolCalls, codec>>

\* unmuteMic() of the handle
SessionUnmuteMic ==
  /\ capture' = [capture EXCEPT !.muted = FALSE,
                                 !.unmuted = @ \/ capture.muted]
  /\ UNCHANGED <<latev, corev, voicev, playv, dateNow, frameOut, bridgev,
                 toolCalls, codec>>

\* stop() of the handle, as far as the capture goes
SessionStop ==
  /\ ~capture.stopped
  /\ capture' = [capture EXCEPT !.stopped = TRUE, !.stream = "stopped"]
  /\ UNCHANGED <<latev, corev, voicev, playv, dateNow, frameOut, bridgev,
                 toolCalls, codec>>

CaptureNext ==
  \/ DateAdvances
  \/ \E loud \in BOOLEAN : OnAudioProcess(loud)
  \/ SessionMuteMic
  \/ SessionUnmuteMic
  \/ SessionStop

SpecCapture == Init /\ [][CaptureNext]_vars

\* the time since the last activity event exceeds 500 ms, or there was none
VadDue(f) == f.gap = -1 \/ f.gap > VadWindow

\* C23 as stated: any two activity events are more than 500 ms apart, and
\* an above-threshold frame arriving more than 500 ms after the last event
\* does emit.
C23_VadDebounce ==
  /\ frameOut.activity => VadDue(frameOut)
  /\ (frameOut.taken /\ frameOut.loud /\ VadDue(frameOut)) => frameOut.activity

\* C23 amended: any two activity events are more than 500 ms apart, and an
\* above-threshold frame captured while the session is neither muted nor
\* stopped, more than 500 ms after the last event, does emit.
C23_VadDebounceUnlessGated ==
  /\ frameOut.activity => VadDue(frameOut)
  /\ (frameOut.taken /\ frameOut.loud /\ VadDue(frameOut)
        /\ ~frameOut.muted /\ ~frameOut.stopped) => frameOut.activity

\* a second activity event, 600 ms after the first
C23_Witness ==
  frameOut.activity /\ frameOut.gap = VadWindow + 1

\* C24: while the microphone is muted no captured frame is sent, the
\* capture stream is not torn down, after unmuteMic every captured frame of
\* a running session is sent again, and muteMic and unmuteMic change
\* nothing in the session but the muted flag.
C24_MuteControl ==
  /\ [](frameOut.taken
          => (frameOut.sent <=> ~frameOut.muted /\ ~frameOut.stopped))
  /\ [][(SessionMuteMic \/ SessionUnmuteMic)
          => /\ capture'.stream = capture.stream
             /\ capture'.stopped = capture.stopped
             /\ capture'.lastActivityTime = capture.lastActivityTime
             /\ frameOut' = frameOut]_vars
  /\ [][SessionMuteMic => capture'.muted]_vars
  /\ [][SessionUnmuteMic => ~capture'.muted]_vars

\* a frame sent after mute and unmute, on a stream that muting left live
C24_Witness ==
  /\ frameOut.taken /\ frameOut.sent /\ frameOut.unmuted
  /\ capture.stream = "live"

\* ------------------------------------------------------------- bridges
\* tutorBridge, chatBridge and the panel controller each keep one
\* module-level callback (0 is null).  bridgeLog is the observer's record:
\* history[b] holds the last registrations on b since its last unregister,
\* sent describes the last send: the bridge, the payload, and the handler
\* invocations it made in order.

Handlers == 1..MaxHandlers

Payloads == 1..MaxPayloads

LastTwo(q) == IF Len(q) > 2 THEN SubSeq(q, Len(q) - 1, Len(q)) ELSE q

SetCallbackIfNull(slot, cb) == IF slot = 0 THEN cb ELSE slot

\* tutorCallback = cb
SetCallback(slot, cb) == cb

RegisterBridge(b, cb) ==
  /\ bridgeCallback' = [bridgeCallback EXCEPT ![b] = SetCallback(@, cb)]
  /\ bridgeLog' = [bridgeLog EXCEPT !.history[b] = LastTwo(Append(@, cb))]
  /\ UNCHANGED <<latev, corev, voicev, playv, capturev, toolCalls, codec>>

UnregisterBridge(b) ==
  /\ bridgeCallback' = [bridgeCallback EXCEPT ![b] = 0]
  /\ bridgeLog' = [bridgeLog EXCEPT !.history[b] = << >>]
  /\ UNCHANGED <<latev, corev, voicev, playv, capturev, toolCalls, codec>>

\* if (tutorCallback) tutorCallback(content); else console.warn(...)
SendToBridge(b, p) ==
  /\ bridgeLog' =
       [bridgeLog EXCEPT !.sent =
          [bridge |-> b, payload |-> p, threw |-> FALSE,
           calls |-> IF bridgeCallback[b] # 0
                       THEN <<[handler |-> bridgeCallback[b], payload |-> p]>>
                       ELSE << >>]]
  /\ UNCHANGED <<latev, corev, voicev, playv, capturev, toolCalls, codec,
                 bridgeCallback>>

BridgeNext ==
  \/ \E b \in Bridges, cb \in Handlers : RegisterBridge(b, cb)
  \/ \E b \in Bridges : UnregisterBridge(b)
  \/ \E b \in Bridges, p \in Payloads : SendToBridge(b, p)

SpecBridge == Init /\ [][BridgeNext]_vars

\* C25: a send on a bridge invokes exactly the handler registered last on
\* it since its last unregister, once, with the payload sent; with none
\* registered it invokes nothing and does not throw; registering and
\* unregistering invoke nothing, so nothing sent earlier is delivered later.
C25_SingleSlot ==
  /\ [](bridgeLog.sent.bridge # "none"
          => bridgeLog.sent.bridge \in Bridges /\ ~bridgeLog.sent.threw)
  /\ [][\A b \in Bridges, p \in Payloads :
          SendToBridge(b, p)
            => bridgeLog'.sent.calls
                 = IF bridgeLog.history[b] = << >>
                     THEN << >>
                     ELSE <<[handler |-> bridgeLog.history[b]
                                           [Len(bridgeLog.history[b])],
                             payload |-> p]>>]_vars
  /\ [][(\E b \in Bridges :
           UnregisterBridge(b) \/ \E cb \in Handlers : RegisterBridge(b, cb))
          => bridgeLog'.sent = bridgeLog.sent]_vars

\* a send that reached the second of two handlers registered in a row
C25_Witness ==
  /\ bridgeLog.sent.bridge \in Bridges
  /\ Len(bridgeLog.history[bridgeLog.sent.bridge]) = 2
  /\ bridgeLog.history[bridgeLog.sent.bridge][1]
       # bridgeLog.history[bridgeLog.sent.bridge][2]
  /\ bridgeLog.sent.calls
       = <<[handler |-> bridgeLog.history[bridgeLog.sent.bridge][2],
            payload |-> bridgeLog.sent.payload]>>
  /\ bridgeCallback[bridgeLog.sent.bridge]
       = bridgeLog.history[bridgeLog.sent.bridge][2]

\* ----------------------------------------------------------- tool calls
\* handleServerMessage of the live session, part 3: the function calls of a
\* toolCall message.  toolCalls[c] follows call c: its name, where its
\* handler stands ("none" not yet received, "awaiting" inside the await of
\* the owner's onSimulationRequest, "done" past it), the responses sent for
\* it with sendToolResponse, and the ticks it has been awaiting.

ToolNames == {"run_simulation", "other"}

\* if (fc.name === 'run_simulation')
Handled(name) == name = "run_simulation"

ToolCallArrives(c, name) ==
  /\ toolCalls[c].state = "none"
  /\ toolCalls' = [toolCalls EXCEPT ![c] =
       [@ EXCEPT !.name = name,
                 !.state = IF Handled(name) THEN "awaiting" ELSE "done"]]
  /\ UNCHANGED <<latev, corev, voicev, playv, capturev, bridgev, codec>>

\* the owner's promise resolves: sendToolResponse with its result
OwnerResolves(c) ==
  /\ toolCalls[c].state = "awaiting"
  /\ toolCalls' = [toolCalls EXCEPT ![c] =
       [@ EXCEPT !.state = "done", !.responses = Append(@, "result")]]
  /\ UNCHANGED <<latev, corev, voicev, playv, capturev, bridgev, codec>>

\* the owner's promise rejects: the catch sends 'Simulation failed. ...'
OwnerRejects(c) ==
  /\ toolCalls[c].state = "awaiting"
  /\ toolCalls' = [toolCalls EXCEPT ![c] =
       [@ EXCEPT !.state = "done", !.responses = Append(@, "failure")]]
  /\ UNCHANGED <<latev, corev, voicev, playv, capturev, bridgev, codec>>

\* time passes while the owner has not answered; no timer runs in the code
ToolTimePasses(c) ==
  /\ toolCalls[c].state = "awaiting"
  /\ toolCalls[c].waited < MaxWait
  /\ toolCalls' = [toolCalls EXCEPT ![c] = [@ EXCEPT !.waited = @ + 1]]
  /\ UNCHANGED <<latev, corev, voicev, playv, capturev, bridgev, codec>>

ToolNext ==
  \E c \in ToolCallIds :
    \/ \E name \in ToolNames : ToolCallArrives(c, name)
    \/ OwnerResolves(c)
    \/ OwnerRejects(c)
    \/ ToolTimePasses(c)

SpecTool == Init /\ [][ToolNext]_vars

\* C26: every inbound tool call receives exactly one response: never more
\* than one, one as soon as its handler is past the owner's answer, and one
\* (a synthesized failure) once the owner has kept it waiting for the whole
\* window.
C26_EveryToolCallAnswered ==
  \A c \in ToolCallIds :
    /\ Len(toolCalls[c].responses) <= 1
    /\ toolCalls[c].state = "done" => Len(toolCalls[c].responses) = 1
    /\ toolCalls[c].waited = MaxWait => Len(toolCalls[c].responses) = 1

\* ---------------------------------------------------------------- codec
\* createPcmBlob and decodeAudioData with their base64 helpers.  A sample s
\* of the Float32Array is held as the integer 2 * FullScale * s, so that
\* s * 32768 is half of it; a decoded sample d is held as FullScale * d.
\* Int16Array elements keep their 16 bits, bytes are little-endian, and the
\* base64 text is the sequence of its 6-bit digits with Pad for '='.

SampleValues ==
  {-2 * FullScale - 2, -2 * FullScale, -3, -1, 0, 1, 3,
   2 * FullScale - 1, 2 * FullScale, 2 * FullScale + 2}

SampleArrays == UNION {[1..n -> SampleValues] : n \in 1..MaxSamples}

\* the number s * 32768 cut to an integer toward zero
Truncate(x) == IF x >= 0 THEN x \div 2 ELSE -((-x) \div 2)

\* the store int16[i] = v of an Int16Array: v modulo 2^16, read as signed
ToInt16(v) ==
  LET u == v % Int16Modulus
  IN  IF u >= FullScale THEN u - Int16Modulus ELSE u

\* the two bytes of an Int16Array element in the buffer
Int16Bytes(v) ==
  LET u == v % Int16Modulus IN <<u % 256, u \div 256>>

RECURSIVE BufferOf(_)
BufferOf(int16) ==
  IF int16 = << >> THEN << >>
  ELSE Int16Bytes(Head(int16)) \o BufferOf(Tail(int16))

RECURSIVE Btoa(_)
Btoa(b) ==
  IF Len(b) = 0 THEN << >>
  ELSE IF Len(b) = 1
    THEN <<b[1] \div 4, (b[1] % 4) * 16, Pad, Pad>>
  ELSE IF Len(b) = 2
    THEN <<b[1] \div 4, (b[1] % 4) * 16 + b[2] \div 16, (b[2] % 16) * 4, Pad>>
  ELSE <<b[1] \div 4, (b[1] % 4) * 16 + b[2] \div 16,
         (b[2] % 16) * 4 + b[3] \div 64, b[3] % 64>>
         \o Btoa(SubSeq(b, 4, Len(b)))

RECURSIVE Atob(_)
Atob(c) ==
  IF Len(c) < 4 THEN << >>
  ELSE LET b1 == c[1] * 4 + c[2] \div 16
           b2 == (c[2] % 16) * 16 + c[3] \div 4
           b3 == (c[3] % 4) * 64 + c[4]
       IN  IF c[3] = Pad THEN <<b1>>
           ELSE IF c[4] = Pad THEN <<b1, b2>>
           ELSE <<b1, b2, b3>> \o Atob(SubSeq(c, 5, Len(c)))

\* new Int16Array(data.buffer) over an even number of bytes
RECURSIVE Int16ArrayOf(_)
Int16ArrayOf(b) ==
  IF Len(b) < 2 THEN << >>
  ELSE <<ToInt16(b[1] + 256 * b[2])>> \o Int16ArrayOf(SubSeq(b, 3, Len(b)))

\* int16[i] = data[i] * 32768
EncodeSamples(data) == [i \in 1..Len(data) |-> ToInt16(Truncate(data[i]))]

CreatePcmBlob(data) ==
  /\ codec' = [phase |-> "encoded", input |-> data,
               pcm |-> EncodeSamples(data),
               data |-> Btoa(BufferOf(EncodeSamples(data))),
               output |-> << >>]
  /\ UNCHANGED <<latev, corev, voicev, playv, capturev, bridgev, toolCalls>>

\* decodeAudioData(base64ToUint8Array(blob.data), ctx, rate, 1)
DecodeAudioData ==
  /\ codec.phase = "encoded"
  /\ codec' = [codec EXCEPT !.phase = "decoded",
                            !.output = Int16ArrayOf(Atob(codec.data))]
  /\ UNCHANGED <<latev, corev, voicev, playv, capturev, bridgev, toolCalls>>

CodecNext ==
  \/ \E data \in SampleArrays : CreatePcmBlob(data)
  \/ DecodeAudioData

SpecCodec == Init /\ [][CodecNext]_vars

\* C29: encoding maps every sample s to round(s * 32768) clamped to
\* [-32768, 32767]; a sample at or beyond full scale encodes to the nearest
\* bound and never wraps to the opposite sign.
C29_EncodeRoundsAndClamps ==
  codec.phase # "none"
    => \A i \in 1..Len(codec.input) :
         LET x == codec.input[i]
             rounded == IF x >= 0 THEN (x + 1) \div 2 ELSE -((1 - x) \div 2)
             clamped == IF rounded > FullScale - 1 THEN FullScale - 1
                        ELSE IF rounded < -FullScale THEN -FullScale
                        ELSE rounded
         IN  /\ Len(codec.pcm) = Len(codec.input)
             /\ codec.pcm[i] = clamped

\* C30: for samples within [-1.0, 1.0], decoding the encoded array gives an
\* array of the same length whose samples differ from the originals by at
\* most 1/32768.
C30_RoundTrip ==
  (/\ codec.phase = "decoded"
   /\ \A i \in 1..Len(codec.input) :
        codec.input[i] >= -2 * FullScale /\ codec.input[i] <= 2 * FullScale)
    => /\ Len(codec.output) = Len(codec.input)
       /\ \A i \in 1..Len(codec.input) :
            /\ codec.input[i] - 2 * codec.output[i] <= 2
            /\ 2 * codec.output[i] - codec.input[i] <= 2

\* ------------------------------------------------- failing providers

\* a turn completes after the render of the state it was asked for in
Rendered == stateRef = tutorState

\* a lecture with its session and a question asked in it, where the
\* classifier may fall back to "slide_related", the research providers
\* return their fallbacks and the visual generator never delivers
FailureNext ==
  \/ \E n \in 1..MaxSlides : StartAutoExplain(n)
  \/ ConnectSucceeds
  \/ Commit
  \/ FirstNarrationTimerFires
  \/ Rendered /\ TurnComplete
  \/ UserActivity
  \/ Interrupted
  \/ \E c \in {"plain", "keyword"} : TextChunk(c)
  \/ AdvanceTimerFires
  \/ GraceTimerFires
  \/ ResumeTimerFires
  \/ ResearchTimerFires
  \/ \E q \in {"slide_related", "external", "visual_request"} :
       ClassifyResult(q)
  \/ ResearchDone
  \/ VisualDone(FALSE)

\* renders are made, pending provider calls settle and the model completes
\* the turns it was asked for
SpecFailure ==
  /\ Init /\ [][FailureNext]_vars
  /\ WF_vars(Commit)
  /\ WF_vars(ResearchDone)
  /\ WF_vars(VisualDone(FALSE))
  /\ WF_vars(Rendered /\ TurnComplete)

\* C28: a failed classification starts no sub-flow and leaves TutorState as
\* it is; a failed generation puts it in answering; a failed research still
\* asks the tutor for a turn, whose completion in research_mode puts it in
\* waiting_to_resume; and TutorState never stays in research_mode or
\* visual_explaining.
C28_FailureDegrades ==
  /\ [][ClassifyResult("slide_related")
          => /\ tutorState' = tutorState
             /\ classify'["research"] = classify["research"]
             /\ classify'["visual"] = classify["visual"]]_vars
  /\ [][VisualDone(FALSE) => tutorState' = "answering"]_vars
  /\ [][(ResearchDone /\ realtimeRef = "open") => turns' > 0]_vars
  /\ [][(TurnComplete /\ isAutoModeRef /\ stateRef = "research_mode")
          => tutorState' = "waiting_to_resume"]_vars
  /\ (tutorState \in {"research_mode", "visual_explaining"})
       ~> (tutorState \notin {"research_mode", "visual_explaining"})

\* the turn asked for after a research that fell back has completed in
\* research_mode
C28_Witness ==
  /\ tutorState = "waiting_to_resume" /\ stateRef = "research_mode"
  /\ isAutoModeRef /\ realtimeRef = "open"
  /\ AsyncCount = 0 /\ turns = 0

\* ------------------------------------------------- handlers and the refs

\* C33: every handler decides on the TutorState and slide index that the
\* events handled before it produced: when a session event or a timer
\* callback is handled, stateRef and currentSlideIndexRef hold the values
\* last set.
C33_HandlersSeeCurrentState ==
  [][((isAutoModeRef /\ (TurnComplete \/ UserActivity \/ Interrupted))
        \/ AdvanceTimerFires \/ GraceTimerFires \/ ResumeTimerFires
        \/ ResearchTimerFires)
       => (stateRef = tutorState
           /\ currentSlideIndexRef = currentSlideIndex)]_vars

\* C36: once stop has been handled no classification result, research
\* completion or generation completion changes TutorState, mutes or unmutes
\* the microphone or sends text to the session.
C36_NothingAfterStop ==
  [][((tutorState = "idle" /\ stateRef = "idle" /\ ~isAutoMode)
        /\ ((\E q \in {"slide_related", "general_concept", "external",
                       "visual_request"} : ClassifyResult(q))
            \/ ResearchDone
            \/ \E u \in BOOLEAN : VisualDone(u)))
       => /\ tutorState' = "idle"
          /\ muted' = muted /\ isMicMuted' = isMicMuted
          /\ turns' = turns]_vars

\* C37: the microphone is muted only within the visual sub-flow: every way
\* out of visual_explaining (the close after a successful generation, a
\* failed generation, goToSlide, resumeAutoExplain, stop) leaves the
\* microphone unmuted, so that the lecture is not in auto_explaining with
\* the microphone muted.
C37_MutedOnlyWhileVisual ==
  [][(/\ tutorState = "visual_explaining"
      /\ tutorState' # "visual_explaining"
      /\ \/ VisualCloseTimerFires
         \/ VisualDone(FALSE)
         \/ \E k \in 0..MaxSlides : GoToSlide(k)
         \/ ResumeAutoExplain
         \/ StopAutoExplain)
       => (~muted' /\ ~isMicMuted')]_vars
\* ------------------------------------------------- sub-flow results

\* C31: a step that leaves research_mode leaves no research bundle held,
\* and a step that leaves visual_explaining leaves no visual bundle held
\* (taken from rendered states, where stateRef and tutorState agree)
C31_BundlesDiscardedOnExit ==
  [][/\ (Rendered /\ tutorState = "research_mode"
            /\ tutorState' # "research_mode")
         => researchPanelData' = "none"
     /\ (Rendered /\ tutorState = "visual_explaining"
            /\ tutorState' # "visual_explaining")
         => visualOverlay' = "none"]_vars
\* ------------------------------------------------- speaking and the queue

\* C39: between two handled events the session is never speaking with
\* nothing scheduled: every onSpeakingStart is matched by onSpeakingStop
\* once the scheduled audio has ended or was cleared, also for a chunk
\* that failed to decode
C39_SpeakingImpliesScheduled ==
  player.isSpeaking => player.activeSources # {}
\* ------------------------------------------------- decode in flight
\* handleMessage is async and awaits decodeAudioData for every audio part.
\* decodeAudioData is an async function without an await of its own: its
\* promise is settled when the call returns, so the rest of handleMessage
\* is a microtask of the task that delivered the message.  decoding.parts
\* are the byte lengths of the audio parts of that message not yet
\* scheduled, the first one awaiting its decode; decoding.epoch is the
\* number of clearAudio calls at the arrival of the message,
\* decoding.clearEpoch their number now, decoding.epochOf the epoch of
\* arrival of every frame of scheduled.

\* a task (a message, a handler's clearAudio, an ended event) starts only
\* when the microtasks of the previous one are done
TaskMayRunAlways(d) == TRUE
TaskMayRun(d) == d.parts = << >>

\* the lines before the try: isSpeaking is set and onSpeakingStart called
BeginPart(p) == [p EXCEPT !.isSpeaking = TRUE]

\* a message with audio parts arrives: the first part runs up to its await
MessageArrives(parts) ==
  /\ TaskMayRun(decoding)
  /\ Len(scheduled) + Len(parts) <= MaxFrames
  /\ decoding' = [decoding EXCEPT !.parts = parts,
                                  !.epoch = decoding.clearEpoch]
  /\ player' = BeginPart(player)
  /\ speakingCalls' = speakingCalls + (IF player.isSpeaking THEN 0 ELSE 1)
  /\ lastPlay' = "arrived"
  /\ UNCHANGED <<corev, voicev, capturev, bridgev, toolCalls, codec, tm,
                 quiz, early,
                 currentTime, scheduled, atInterrupted>>

\* the continuation after the await: the decoded part is started and added
\* to activeSources, or the catch logs; then the loop reaches the next part
DecodeResumes ==
  /\ decoding.parts # << >>
  /\ LET len   == Head(decoding.parts)
         rest  == Tail(decoding.parts)
         start == StartTime(player.nextStartTime, currentTime)
         added == IF DecodeThrows(len)
                    THEN [player EXCEPT !.dropped = TRUE]
                    ELSE [player EXCEPT
                            !.nextStartTime = start + len \div 2,
                            !.activeSources = @ \cup {Len(scheduled) + 1}]
     IN /\ scheduled' =
             (IF DecodeThrows(len) THEN scheduled
              ELSE Append(scheduled, [start |-> start,
                                      duration |-> len \div 2,
                                      at |-> currentTime]))
        /\ decoding' =
             [decoding EXCEPT
                !.parts = rest,
                !.epochOf = IF DecodeThrows(len) THEN @
                            ELSE Append(@, decoding.epoch)]
        /\ player' = (IF rest = << >> THEN added ELSE BeginPart(added))
        /\ speakingCalls' = speakingCalls
             + (IF rest # << >> /\ ~added.isSpeaking THEN 1 ELSE 0)
        /\ lastPlay' = (IF DecodeThrows(len) THEN "dropped" ELSE "audio")
  /\ UNCHANGED <<corev, voicev, capturev, bridgev, toolCalls, codec, tm,
                 quiz, early,
                 currentTime, atInterrupted>>

\* a task that calls clearAudio: stopAudioPlayback of a handler, or
\* handleMessage for serverContent.interrupted
ClearAudioTask ==
  /\ TaskMayRun(decoding)
  /\ decoding.clearEpoch < MaxClears
  /\ player' = ClearAudioPlayer(player)
  /\ speakingCalls' = speakingCalls + ClearAudioCalls(player)
  /\ scheduled' = << >>
  /\ decoding' = [decoding EXCEPT !.clearEpoch = @ + 1, !.epochOf = << >>]
  /\ lastPlay' = "clear"
  /\ UNCHANGED <<corev, voicev, capturev, bridgev, toolCalls, codec, tm,
                 quiz, early,
                 currentTime, atInterrupted>>

\* the ended event of a source is a task of its own
EndedTask ==
  /\ TaskMayRun(decoding)
  /\ \/ \E i \in 1..MaxFrames : SourceEnded(i)
     \/ StoppedSourceEnded

\* the messages: one or two audio parts
AudioMessages ==
  {<<a>> : a \in 1..2 * MaxDuration}
    \cup {<<a, b>> : a \in 1..2, b \in 1..2}

DecodeNext ==
  \/ Tick
  \/ \E parts \in AudioMessages : MessageArrives(parts)
  \/ DecodeResumes
  \/ ClearAudioTask
  \/ EndedTask

SpecDecode == Init /\ [][DecodeNext]_vars

\* C38: every source in the active set belongs to a chunk that was
\* received after the last clearAudio: a chunk received before a clear is
\* never scheduled after it
C38_NoChunkAcrossClear ==
  \A i \in player.activeSources :
     i \in DOMAIN decoding.epochOf
       /\ decoding.epochOf[i] = decoding.clearEpoch

\* chunks were received and scheduled, clearAudio ran, and a chunk received
\* after it is in the active set
C38_Witness ==
  /\ decoding.clearEpoch > 0
  /\ lastPlay = "audio"
  /\ player.stopping > 0
  /\ player.activeSources # {}
\* ------------------------------------------------- pauses against the clock
\* One lecture with its session open, its timers with their deadlines.
\* tm.now counts units of 500 ms; a timer is [id, kind, due, next]: the
\* anonymous grace timer of handleUserSpeechDetected, the anonymous timer
\* of the resume effect, the advance timer held in advanceTimerRef.
\* tm.pausedAt is the clock at the last setTutorState("paused_for_question");
\* tm.entryIndex the slide at the last entry into waiting_to_resume and
\* tm.resumed the resume timers that passed their check since.
\* What the user and the session do comes a render after the event
\* before; timers whose deadline has come run back to back.

GraceTicks == 4     \* the 2000 ms of the grace timer
ResumeTicks == 2    \* the 1000 ms of the resume timer
AdvanceTicks == 3   \* the 1500 ms of the advance timer

TmOthers == <<corev, voicev, playv, capturev, bridgev, toolCalls, codec,
              decoding, quiz, early>>

TmRendered ==
  tm.state = tm.stateRef /\ tm.index = tm.indexRef /\ ~tm.changed

TmNewId == CHOOSE i \in 1..MaxTimers : \A t \in tm.timers : t.id # i

\* clearSubtitles(), and the setSubtitlesText("") of sendTextToTutor
TmClearSubtitles(t) ==
  [t EXCEPT !.subs = "empty", !.changed = @ \/ t.subs # "empty"]

\* explainCurrentSlide(): it reads currentSlideIndexRef
TmExplain(t) ==
  IF t.indexRef >= DeckSize
    THEN [t EXCEPT !.state = "finished"]
    ELSE [TmClearSubtitles(t) EXCEPT !.state = "auto_explaining"]

\* the slide is advanced in the state and in the ref, unless it is the last
TmAdvance(t) ==
  IF t.indexRef + 1 < DeckSize
    THEN [t EXCEPT !.index = t.indexRef + 1, !.indexRef = t.indexRef + 1]
    ELSE t

\* startAutoExplain with its session connected and its first narration
TmStart ==
  /\ tm.state = "idle" /\ tm.stateRef = "idle"
  /\ tm' = TmExplain(tm)
  /\ UNCHANGED TmOthers

\* handleTurnComplete
TmTurnComplete ==
  /\ tm.stateRef # "idle"
  /\ TmRendered
  /\ CASE tm.stateRef = "auto_explaining" ->
            IF tm.indexRef + 1 >= DeckSize
              THEN tm' = [tm EXCEPT !.state = "finished"]
              ELSE LET kept == {t \in tm.timers : t.id # tm.advanceTimerRef}
                       id   == CHOOSE i \in 1..MaxTimers :
                                  \A t \in kept : t.id # i
                   IN /\ Cardinality(kept) < MaxTimers
                      /\ tm' = [tm EXCEPT
                                  !.timers = kept \cup
                                     {[id |-> id, kind |-> "advance",
                                       due |-> tm.now + AdvanceTicks,
                                       next |-> tm.indexRef + 1]},
                                  !.advanceTimerRef = id]
       [] tm.stateRef \in {"answering", "paused_for_question"} ->
            tm' = [tm EXCEPT !.state = "waiting_to_resume",
                             !.entryIndex = tm.index,
                             !.resumed = 0]
       [] OTHER -> FALSE
  /\ UNCHANGED TmOthers

\* handleUserSpeechDetected: the advance timer is cleared, the grace timer
\* is started and kept by nobody
TmUserSpeech ==
  /\ tm.stateRef = "auto_explaining"
  /\ TmRendered
  /\ LET kept == {t \in tm.timers : t.id # tm.advanceTimerRef}
         id   == CHOOSE i \in 1..MaxTimers : \A t \in kept : t.id # i
     IN /\ Cardinality(kept) < MaxTimers
        /\ tm' = [tm EXCEPT
                    !.state = "paused_for_question",
                    !.pausedAt = tm.now,
                    !.advanceTimerRef = 0,
                    !.timers = kept \cup
                       {[id |-> id, kind |-> "grace",
                         due |-> tm.now + GraceTicks, next |-> 0]}]
  /\ UNCHANGED TmOthers

\* pauseAutoExplain
TmPause ==
  /\ tm.stateRef \notin {"idle", "finished"}
  /\ TmRendered
  /\ tm' = [tm EXCEPT
              !.state = "paused_for_question",
              !.pausedAt = IF tm.state = "paused_for_question"
                             THEN @ ELSE tm.now,
              !.timers = {t \in @ : t.id # tm.advanceTimerRef}]
  /\ UNCHANGED TmOthers

\* resumeAutoExplain
TmResume ==
  /\ tm.stateRef \notin {"idle", "finished"}
  /\ TmRendered
  /\ tm' = TmExplain(
             IF tm.stateRef \in {"waiting_to_resume", "paused_for_question",
                                 "answering"}
               THEN TmAdvance(TmClearSubtitles(tm))
               ELSE TmClearSubtitles(tm))
  /\ UNCHANGED TmOthers

\* onText: the transcript grows by a chunk with or without a resume keyword
TmTranscript(keyword) ==
  /\ tm.stateRef \notin {"idle", "finished"}
  /\ TmRendered
  /\ tm' = [tm EXCEPT
              !.subs = IF keyword \/ @ = "keyword" THEN "keyword" ELSE "plain",
              !.changed = TRUE]
  /\ UNCHANGED TmOthers

\* a render with its effects: the ref syncs, then the resume effect, which
\* runs for every change of subtitlesText
TmCommit ==
  /\ ~TmRendered
  /\ LET hit == /\ tm.changed
                /\ tm.state = "waiting_to_resume"
                /\ tm.subs = "keyword"
     IN /\ hit => Cardinality(tm.timers) < MaxTimers
        /\ tm' = [tm EXCEPT
                    !.stateRef = tm.state,
                    !.indexRef = tm.index,
                    !.changed = FALSE,
                    !.timers = IF hit
                                 THEN @ \cup {[id |-> TmNewId,
                                               kind |-> "resume",
                                               due |-> tm.now + ResumeTicks,
                                               next |-> 0]}
                                 ELSE @]
  /\ UNCHANGED TmOthers

\* the callback of a timer whose deadline has come
TmRun(t, rest) ==
  CASE t.kind = "grace" ->
         IF rest.stateRef = "paused_for_question"
           THEN [rest EXCEPT !.state = "answering"]
           ELSE rest
    [] t.kind = "resume" ->
         IF rest.stateRef = "waiting_to_resume"
           THEN TmExplain(TmClearSubtitles(TmAdvance(
                  [rest EXCEPT !.resumed = Min(MaxTimers, @ + 1)])))
           ELSE rest
    [] OTHER ->
         IF rest.stateRef = "auto_explaining"
           THEN TmExplain([rest EXCEPT !.index = t.next,
                                       !.indexRef = t.next,
                                       !.advanceTimerRef = 0])
           ELSE [rest EXCEPT !.advanceTimerRef = 0]

TmTimerFires ==
  /\ \E t \in tm.timers :
       /\ t.due <= tm.now
       /\ tm' = TmRun(t, [tm EXCEPT !.timers = @ \ {t}])
  /\ UNCHANGED TmOthers

\* the clock advances once the timers that are due have run and the
\* pending render is done
TmTimePasses ==
  /\ tm.now < MaxTime
  /\ TmRendered
  /\ \A t \in tm.timers : t.due > tm.now
  /\ tm' = [tm EXCEPT !.now = @ + 1]
  /\ UNCHANGED TmOthers

TimersNext ==
  \/ TmStart
  \/ TmTurnComplete
  \/ TmUserSpeech
  \/ TmPause
  \/ TmResume
  \/ \E keyword \in BOOLEAN : TmTranscript(keyword)
  \/ TmCommit
  \/ TmTimerFires
  \/ TmTimePasses

SpecTimers == Init /\ [][TimersNext]_vars

\* C32: while the grace timer of the pause that TutorState is in is still
\* pending, TutorState does not go from paused_for_question to answering:
\* the timer of an earlier pause never performs the transition of a later
\* one
C32_StaleGraceTimerCancelled ==
  [][(/\ tm.state = "paused_for_question"
      /\ tm'.state = "answering"
      /\ \E t \in tm.timers :
            t.kind = "grace" /\ t.due = tm.pausedAt + GraceTicks)
       => tm.now >= tm.pausedAt + GraceTicks]_vars

\* C40: in one stay in waiting_to_resume, whatever the number of
\* transcript updates with a resume keyword, at most one of the delayed
\* resume actions advances the slide and requests a narration
C40_OneResumeOneSlide ==
  tm.resumed <= 1
\* ------------------------------------------------- the quiz session's inbox
\* QuizViewer's onmessage starts handleServerMessage for every message and
\* does not wait for it.  A handler runs to its end within the task of its
\* message (the await of decodeAudioData resumes in a microtask), except
\* at the await of the owner's simulation, which another task resolves.
\* quiz.log lists the effects in the order they happen, each with the
\* number of the message that caused it; quiz.awaiting are the messages
\* whose handler is suspended on the owner.

QuizOthers == <<corev, voicev, playv, capturev, bridgev, toolCalls, codec,
                decoding, tm, early>>

MessageKinds == {"audio", "turnComplete", "toolCall", "interrupted"}

\* the effects of handleServerMessage up to its end or its first await on
\* the owner, for message m of the given kind
QuizEffects(q, m, kind) ==
  CASE kind = "audio" ->
         [q EXCEPT !.isPlaying = TRUE,
                   !.status = IF q.isPlaying THEN @ ELSE "speaking",
                   !.log = Append(@, [msg |-> m, what |-> "enqueue"])]
    [] kind = "turnComplete" ->
         [q EXCEPT !.status = IF @ = "processing" THEN @ ELSE "listening",
                   !.log = Append(@, [msg |-> m, what |-> "turnComplete"])]
    [] kind = "toolCall" ->
         [q EXCEPT !.status = "processing",
                   !.awaiting = @ \cup {m},
                   !.log = Append(@, [msg |-> m, what |-> "simulation"])]
    [] OTHER ->
         [q EXCEPT !.isPlaying = FALSE,
                   !.status = "listening",
                   !.log = Append(@, [msg |-> m, what |-> "clear"])]

\* a message arrives: onmessage, then handleServerMessage in a microtask
QuizMessage(kind) ==
  /\ quiz.next <= MaxMessages
  /\ quiz' = [QuizEffects(quiz, quiz.next, kind) EXCEPT !.next = @ + 1]
  /\ UNCHANGED QuizOthers

\* the owner's simulation settles: the handler of message m resumes, sends
\* the tool response (the result, or the failure text) and sets listening
QuizOwnerSettles(m) ==
  /\ m \in quiz.awaiting
  /\ quiz' = [quiz EXCEPT
                !.awaiting = @ \ {m},
                !.status = "listening",
                !.log = Append(@, [msg |-> m, what |-> "toolResponse"])]
  /\ UNCHANGED QuizOthers

QuizNext ==
  \/ \E kind \in MessageKinds : QuizMessage(kind)
  \/ \E m \in 1..MaxMessages : QuizOwnerSettles(m)

SpecQuiz == Init /\ [][QuizNext]_vars

\* C34: the effects of the messages happen in the order of arrival: no
\* effect of a message comes after an effect of a later message
C34_ArrivalOrder ==
  \A i, j \in DOMAIN quiz.log :
     i < j => quiz.log[i].msg <= quiz.log[j].msg
\* ------------------------------------------------- frames around the connect
\* ai.live.connect returns sessionPromise; the library calls onopen when
\* the socket opens, and onopen installs the capture node; the promise is
\* settled by the library, and the handle is built after `await
\* sessionPromise`.  onaudioprocess hands every frame to
\* sessionPromise.then: on a pending promise the reaction is queued, on
\* a fulfilled one it runs in a microtask, on a rejected one the catch
\* swallows it.  early.queued are the reactions waiting on the promise,
\* early.sent the frames given to sendRealtimeInput, each with the stage at
\* its capture.

EarlyOthers == <<corev, voicev, playv, capturev, bridgev, toolCalls, codec,
                 decoding, tm, quiz>>

\* ai.live.connect(...) is called
EarlyConnect ==
  /\ early.stage = "none"
  /\ early' = [early EXCEPT !.stage = "connecting"]
  /\ UNCHANGED EarlyOthers

\* onopen: the capture node is created and connected
EarlyOpen ==
  /\ early.stage = "connecting"
  /\ early' = [early EXCEPT !.stage = "opened"]
  /\ UNCHANGED EarlyOthers

\* onaudioprocess: nothing while muted; else the frame is encoded and its
\* send is chained on sessionPromise
EarlyFrame ==
  /\ early.stage \in {"opened", "ready", "rejected"}
  /\ early.captured < MaxEarly
  /\ LET frame == [n |-> early.captured + 1, at |-> early.stage]
     IN early' =
          [early EXCEPT
             !.captured = @ + 1,
             !.queued = IF ~early.muted /\ early.stage = "opened"
                          THEN Append(@, frame) ELSE @,
             !.sent = IF ~early.muted /\ early.stage = "ready"
                        THEN Append(@, frame) ELSE @]
  /\ UNCHANGED EarlyOthers

\* sessionPromise is fulfilled: the queued reactions run in their order
EarlyResolves ==
  /\ early.stage = "opened"
  /\ early' = [early EXCEPT !.stage = "ready",
                            !.sent = @ \o early.queued,
                            !.queued = << >>]
  /\ UNCHANGED EarlyOthers

\* sessionPromise is rejected: the catch of every queued reaction runs
EarlyRejects ==
  /\ early.stage \in {"connecting", "opened"}
  /\ early' = [early EXCEPT !.stage = "rejected", !.queued = << >>]
  /\ UNCHANGED EarlyOthers

\* the microphone is muted or unmuted
EarlyMute(m) ==
  /\ early.stage \in {"opened", "ready"}
  /\ early.muted # m
  /\ early' = [early EXCEPT !.muted = m]
  /\ UNCHANGED EarlyOthers

EarlyNext ==
  \/ EarlyConnect
  \/ EarlyOpen
  \/ EarlyFrame
  \/ EarlyResolves
  \/ EarlyRejects
  \/ \E m \in BOOLEAN : EarlyMute(m)

SpecEarly == Init /\ [][EarlyNext]_vars

\* C35: every frame given to the transport was captured while the
\* connection was connected: a frame captured before is dropped, not kept
\* on the pending session promise and sent when it resolves
C35_EarlyFramesDropped ==
  \A i \in DOMAIN early.sent : early.sent[i].at = "ready"

====
